---- MODULE Spec2Model ----
(***************************************************************************)
(* Model of rust-hox (src/src/hox.rs): the cursor / selection / viewport   *)
(* state machine of Hox, the per-cell highlight mask built by redraw and   *)
(* set_search_mask, and find_next / find_previous, driven by the event     *)
(* loop of Hox::run.                                                       *)
(*                                                                         *)
(* One step of the model is either the redraw at the top of the loop (when *)
(* need_redraw is set) or the reading and handling of one input event.     *)
(* A Rust panic (slice out of range, division by zero, overflow check of a *)
(* debug build) ends the program: status = "panicked".  An unsigned        *)
(* subtraction that underflows has two outcomes, the panic of a build with *)
(* overflow checks and the wrapped value of a build without.               *)
(*                                                                         *)
(* Not modelled: the text buffers of the input widgets (a widget's answer  *)
(* to a key that depends on its buffer is a choice over the answers the    *)
(* code can give), endian / signed (display only), the curses window.      *)
(* view_mask holds the cache content while the program can read it: it is  *)
(* read only after a rebuild or under view_mask_valid, so the content is   *)
(* dropped when the flag is cleared.                                       *)
(***************************************************************************)
EXTENDS Integers, Sequences, FiniteSets, TLC

VARIABLES
    status,           \* "init" | "running" | "quit" | "panicked"
    mem,              \* the mapped file, a sequence of bytes (never changes)
    win_rows,         \* win_size.rows
    win_cols,         \* win_size.columns
    bytes_per_row,
    view_size,
    view_offset,
    cursor,
    selection_start,
    selection_end,
    selecting,
    need_redraw,
    view_mask,
    view_mask_valid,
    error,            \* "none" or the message
    search_data,
    focused,          \* focused flag of each of the four input widgets
    help_shown,
    last,             \* history: the last operation that ran, to its return or
                      \* to its panic (a key that is ignored runs none)
    widget_mode,      \* search_widget.mode
    widget_buf,       \* search_widget.buf, a sequence of chars
    given,            \* the bytes the search widget was last given as its value
    returned,         \* the Result of the search widget's last call
    widget_cursor,    \* search_widget.cursor
    widget_view_offset, \* search_widget.view_offset
    prev_mode,        \* history: search_widget.mode before the last call of
                      \* set_search_mode
    pressed,          \* history: the number of keys pressed so far, where it
                      \* is counted
    help_box          \* the help TextBox: its wrapped lines (their lengths),
                      \* win_size, max_line_len and view_offset

vars == <<status, mem, win_rows, win_cols, bytes_per_row, view_size, view_offset,
          cursor, selection_start, selection_end, selecting, need_redraw,
          view_mask, view_mask_valid, error, search_data, focused, help_shown, last,
          widget_mode, widget_buf, given, returned, widget_cursor,
          widget_view_offset, prev_mode, pressed, help_box>>

----------------------------------------------------------------------------
(* Bounds of the model *)

\* largest file size
MaxSize == 4
\* largest value entered in the offset input, and largest magnitude entered
\* in the relative offset input
MaxEntry == 5

\* the file contents the model opens: the prefixes of BaseFile
BaseFile == <<65, 65, 0, 66, 65, 0, 66, 65, 65, 0>>

Files == { SubSeq(BaseFile, 1, n) : n \in 0..MaxSize }

\* byte patterns a search submits
Patterns == { <<65>>, <<0, 66>>, <<65, 65, 0, 66, 65>> }

\* terminal sizes <<rows, columns>> the window takes
WinSizes == { <<7, 13>>, <<8, 13>>, <<9, 13>>, <<9, 8>> }

----------------------------------------------------------------------------
(* Program constants *)

MASK_SEARCH        == 1
MASK_SEARCH_END    == 2
MASK_HIGHLIGHT     == 4
MASK_HIGHLIGHT_END == 8
MASK_SELECTED      == 16
MASK_SELECTED_END  == 32
BOTTOM_WIN_HEIGHT  == 7

\* std::usize::MAX, scaled to the integers of the model checker
UsizeMax == 2147483647

Widgets == {"offset_input", "rel_offset_input", "file_input", "search_widget"}

Min(a, b) == IF a < b THEN a ELSE b
Max(a, b) == IF a > b THEN a ELSE b

size == Len(mem)

\* mem[a..b]
Slice(m, a, b) == SubSeq(m, a + 1, b)

is_printable_ascii(byte) == (byte >= 32 /\ byte <= 126) \/ byte = 9 \/ byte = 11

RECURSIVE HexDigits(_)
\* the while loop of hex_len: the number of shifts by 4 that bring num to 0
HexDigits(num) == IF num > 0 THEN 1 + HexDigits(num \div 16) ELSE 0

hex_len(num) == IF num = 0 THEN 1 ELSE HexDigits(num)

\* a - b on usize in a build without overflow checks
WrappingSub(a, b) == IF a >= b THEN a - b ELSE UsizeMax - (b - a) + 1

----------------------------------------------------------------------------
(* The Hox object as a record, and its methods as operators from a record  *)
(* to the set of records the method can leave behind.                      *)

Self ==
    [status |-> status, win_rows |-> win_rows, win_cols |-> win_cols,
     bytes_per_row |-> bytes_per_row, view_size |-> view_size,
     view_offset |-> view_offset, cursor |-> cursor,
     selection_start |-> selection_start, selection_end |-> selection_end,
     selecting |-> selecting, need_redraw |-> need_redraw,
     view_mask |-> view_mask, view_mask_valid |-> view_mask_valid,
     error |-> error, search_data |-> search_data, focused |-> focused,
     help_shown |-> help_shown, last |-> last]

CommitWith(h, tb) ==
    /\ status' = h.status
    /\ win_rows' = h.win_rows
    /\ win_cols' = h.win_cols
    /\ bytes_per_row' = h.bytes_per_row
    /\ view_size' = h.view_size
    /\ view_offset' = h.view_offset
    /\ cursor' = h.cursor
    /\ selection_start' = h.selection_start
    /\ selection_end' = h.selection_end
    /\ selecting' = h.selecting
    /\ need_redraw' = h.need_redraw
    /\ view_mask' = h.view_mask
    /\ view_mask_valid' = h.view_mask_valid
    /\ error' = h.error
    /\ search_data' = h.search_data
    /\ focused' = h.focused
    /\ help_shown' = h.help_shown
    /\ last' = h.last
    /\ help_box' = tb
    /\ UNCHANGED <<mem, widget_mode, widget_buf, given, returned, widget_cursor,
                   widget_view_offset, prev_mode, pressed>>

\* the editor's fields change, the help box is left as it is
Commit(h) == CommitWith(h, help_box)

Panic(h) == [h EXCEPT !.status = "panicked"]

----------------------------------------------------------------------------
(* The help TextBox (text_box.rs) *)
(* A text is the sequence of its lines, a line the sequence of its words   *)
(* (what split(' ') yields), a word its length in chars and whether all of *)
(* its chars are '.'; a wrapped line is kept as its length in chars.       *)

Word(n) == [len |-> n, dots |-> FALSE]
Dots(n) == [len |-> n, dots |-> TRUE]

\* the first five lines of the help text:
\*   Hotkeys
\*   (seven box-drawing chars)
\*   h or F1 ... show this help message
\*   q ......... quit
\*   e ......... toggle between big and little endian
HelpText ==
    << <<Word(7)>>,
       <<Word(7)>>,
       <<Word(1), Word(2), Word(2), Dots(3), Word(4), Word(4), Word(4), Word(7)>>,
       <<Word(1), Dots(9), Word(4)>>,
       <<Word(1), Dots(9), Word(6), Word(7), Word(3), Word(3), Word(6), Word(6)>> >>

\* TextBox::new(text, 2, 1): hpadding and vpadding of the help box
HelpHPadding == 2
HelpVPadding == 1
hdiff == HelpHPadding * 2 + 2
vdiff == HelpVPadding * 2 + 2

TextBoxNew ==
    [lines |-> <<>>, rows |-> 0, columns |-> 0, max_line_len |-> 0, view_offset |-> 0]

RECURSIVE SumLen(_)
SumLen(line) == IF line = <<>> THEN 0 ELSE Head(line).len + SumLen(Tail(line))

\* line.chars().count(): the words and the spaces between them
LineLen(line) == SumLen(line) + Len(line) - 1

\* lines.push(newline); newline.clear(); wrap_indent spaces pushed
PushLine(acc) == [acc EXCEPT !.lines = Append(@, acc.newline), !.newline = acc.wrap_indent]

\* the while loop that breaks up a word longer than the available space
RECURSIVE BreakWord(_, _, _, _)
BreakWord(acc, word_len, offset, max_width) ==
    IF offset >= word_len THEN acc
    ELSE LET a == IF acc.newline > acc.wrap_indent THEN PushLine(acc) ELSE acc
             new_offset == Min(offset + max_width - a.wrap_indent, word_len)
         IN BreakWord([a EXCEPT !.newline = @ + (new_offset - offset)],
                      word_len, new_offset, max_width)

\* the body of for word in line.split(' ')
WrapWord(acc, word, max_width) ==
    LET newlen0 == IF acc.first THEN acc.newline + word.len
                   ELSE acc.newline + word.len + 1
        flush == acc.newline > acc.wrap_indent /\ newlen0 > max_width
        a == IF flush THEN [PushLine(acc) EXCEPT !.first = TRUE] ELSE acc
        newlen == IF flush THEN a.newline + word.len ELSE newlen0
    IN IF newlen <= max_width
       THEN [a EXCEPT !.wrap_indent =
                          IF @ = 0 /\ word.len >= 3 /\ word.dots
                          THEN (IF newlen + 1 >= max_width THEN 0 ELSE newlen + 1)
                          ELSE @,
                      !.newline = newlen,
                      !.first = FALSE]
       ELSE [BreakWord(a, word.len, 0, max_width) EXCEPT !.first = FALSE]

RECURSIVE WrapWords(_, _, _)
WrapWords(acc, words, max_width) ==
    IF words = <<>> THEN acc
    ELSE WrapWords(WrapWord(acc, Head(words), max_width), Tail(words), max_width)

\* the body of for line in text.split('\n')
WrapLine(lines, line, max_width) ==
    IF LineLen(line) > max_width
    THEN LET acc == WrapWords([lines |-> lines, newline |-> 0, first |-> TRUE,
                               wrap_indent |-> 0], line, max_width)
         IN IF acc.newline > 0 THEN Append(acc.lines, acc.newline) ELSE acc.lines
    ELSE Append(lines, LineLen(line))

RECURSIVE WrapText(_, _, _)
WrapText(lines, text, max_width) ==
    IF text = <<>> THEN lines
    ELSE WrapText(WrapLine(lines, Head(text), max_width), Tail(text), max_width)

\* wrap_lines(text, max_width)
wrap_lines(text, max_width) ==
    IF max_width > 0 THEN WrapText(<<>>, text, max_width) ELSE <<>>

RECURSIVE MaxOf(_)
MaxOf(lens) == IF lens = <<>> THEN 0 ELSE Max(Head(lens), MaxOf(Tail(lens)))

\* TextBox::page_height
text_box_page_height(tb) == IF tb.rows > vdiff THEN tb.rows - vdiff ELSE 0

\* TextBox::max_view_offset
text_box_max_view_offset(tb) ==
    LET vspace == text_box_page_height(tb)
    IN IF Len(tb.lines) > vspace THEN Len(tb.lines) - vspace ELSE 0

\* the text is wrapped again when the column count changes
RewrapColumns(tb, cols) ==
    IF cols # tb.columns
    THEN LET wrapped == IF cols > hdiff THEN wrap_lines(HelpText, cols - hdiff) ELSE <<>>
         IN [tb EXCEPT !.columns = cols, !.lines = wrapped,
                       !.max_line_len = MaxOf(wrapped)]
    ELSE tb

\* view_offset is clamped when the row count changes
ClampRows(tb, rows) ==
    IF rows # tb.rows
    THEN LET t == [tb EXCEPT !.rows = rows]
         IN [t EXCEPT !.view_offset = Min(@, text_box_max_view_offset(t))]
    ELSE tb

\* TextBox::resize
text_box_resize(tb, rows, cols) == ClampRows(RewrapColumns(tb, cols), rows)

\* TextBox::redraw panics: lines.len() - view_offset underflows, or
\* height - vdiff does, or the slice of lines is out of range (a build
\* without overflow checks wraps around and fails on the slice instead)
text_box_redraw_panics(tb) ==
    /\ tb.columns > hdiff
    /\ tb.columns > vdiff
    /\ \/ tb.view_offset > Len(tb.lines)
       \/ LET height == Min(Len(tb.lines) - tb.view_offset + vdiff, tb.rows)
          IN \/ height < vdiff
             \/ tb.view_offset + height - vdiff > Len(tb.lines)

\* TextBox::handle: the box after the key, and the result
text_box_handle(tb, key) ==
    LET page_height == text_box_page_height(tb)
        max_offset == text_box_max_view_offset(tb)
        Scroll(new_view_offset) ==
            [box |-> [tb EXCEPT !.view_offset = new_view_offset],
             result |-> IF new_view_offset # tb.view_offset THEN "Redraw" ELSE "Ignore"]
    IN CASE key = "KeyHome" -> [box |-> [tb EXCEPT !.view_offset = 0], result |-> "Redraw"]
         [] key = "KeyEnd" ->
              [box |-> [tb EXCEPT !.view_offset = max_offset], result |-> "Redraw"]
         [] key = "KeyUp" ->
              Scroll(IF tb.view_offset > 0 THEN tb.view_offset - 1 ELSE tb.view_offset)
         [] key = "KeyDown" ->
              Scroll(IF tb.view_offset < max_offset THEN tb.view_offset + 1
                     ELSE tb.view_offset)
         [] key = "KeyNPage" ->
              Scroll(IF tb.view_offset + page_height < max_offset
                     THEN tb.view_offset + page_height ELSE max_offset)
         [] key = "KeyPPage" ->
              Scroll(IF tb.view_offset > page_height
                     THEN tb.view_offset - page_height ELSE 0)
         [] key = "CANCEL" -> Scroll(0)
         [] key = "DEVICE_CONTROL3" -> Scroll(max_offset)
         [] key = "KeyResize" -> [box |-> tb, result |-> "PropagateEvent"]
         [] key \in {"q", "ESCAPE", "END_OF_TRANSMISSION"} ->
              [box |-> tb, result |-> "Quit"]
         [] OTHER -> [box |-> tb, result |-> "Ignore"]


Ok(h) == h.status # "panicked"

\* self.view_mask_valid = false
Invalidate(h) == [h EXCEPT !.view_mask_valid = FALSE, !.view_mask = <<>>]

\* the max_view_offset of adjust_view and of the KeyNPage handler:
\* size - size % bytes_per_row - (view_size - bytes_per_row), for bytes_per_row > 0
MaxViewOffsetUnderflows(h) == h.view_size < size /\ h.view_size < h.bytes_per_row

MaxViewOffset(h) ==
    IF h.view_size < size
    THEN size - (size % h.bytes_per_row) - (h.view_size - h.bytes_per_row)
    ELSE 0

\* an adjust_view that always scrolls the cursor's row to the top of the view
adjust_viewToCursorRow(h) ==
    IF h.bytes_per_row > 0 /\ ~MaxViewOffsetUnderflows(h)
    THEN {Invalidate([h EXCEPT !.view_offset =
              Min(MaxViewOffset(h), h.cursor - (h.cursor % h.bytes_per_row))])}
    ELSE {Invalidate(h)}

adjust_view(h) ==
    IF h.bytes_per_row > 0
    THEN (IF MaxViewOffsetUnderflows(h) THEN {Panic(h)} ELSE {})
         \cup
         { LET max_view_offset == MaxViewOffset(h)
               bpr == h.bytes_per_row
           IN  IF h.cursor >= h.view_offset + h.view_size
               THEN Invalidate([h EXCEPT
                        !.view_offset = Min(max_view_offset,
                            h.cursor - (h.cursor % bpr) + bpr - h.view_size),
                        !.need_redraw = TRUE])
               ELSE IF h.cursor < h.view_offset
               THEN Invalidate([h EXCEPT
                        !.view_offset = Min(max_view_offset, h.cursor - (h.cursor % bpr)),
                        !.need_redraw = TRUE])
               ELSE IF h.view_offset > max_view_offset
               THEN Invalidate([h EXCEPT !.view_offset = max_view_offset])
               ELSE Invalidate(h) }
    ELSE {Invalidate(h)}

\* ExtendSelection without the re-anchoring of a forward move past the end:
\* the start stays where it was
ExtendSelectionNoFlip(h, c) ==
    IF c > h.cursor
    THEN IF h.cursor + 1 = h.selection_end \/ c >= h.selection_end
         THEN [h EXCEPT !.selection_end = c + 1]
         ELSE [h EXCEPT !.selection_start = c]
    ELSE IF h.cursor = h.selection_start
         THEN [h EXCEPT !.selection_start = c]
         ELSE IF c < h.selection_start
         THEN [h EXCEPT !.selection_end = h.selection_start + 1,
                        !.selection_start = c]
         ELSE [h EXCEPT !.selection_end = c + 1]

\* ExtendSelection with an off-by-one in the backward move that shrinks the
\* selection: selection_end = cursor instead of cursor + 1
ExtendSelectionOffByOne(h, c) ==
    IF c > h.cursor
    THEN IF h.cursor + 1 = h.selection_end
         THEN [h EXCEPT !.selection_end = c + 1]
         ELSE IF c >= h.selection_end
         THEN [h EXCEPT !.selection_start = WrappingSub(h.selection_end, 1),
                        !.selection_end = c + 1]
         ELSE [h EXCEPT !.selection_start = c]
    ELSE IF h.cursor = h.selection_start
         THEN [h EXCEPT !.selection_start = c]
         ELSE IF c < h.selection_start
         THEN [h EXCEPT !.selection_end = h.selection_start + 1,
                        !.selection_start = c]
         ELSE [h EXCEPT !.selection_end = c]

\* the selection after set_cursor moves an in-progress selection from
\* h.cursor to cursor (cursor # h.cursor)
\* ExtendSelection that spans from the cursor's last position to the new one
\* instead of keeping the end the session started at
ExtendSelectionFromCursor(h, c) ==
    [h EXCEPT !.selection_start = Min(h.cursor, c),
              !.selection_end = Max(h.cursor, c) + 1]

ExtendSelection(h, c) ==
    IF c > h.cursor
    THEN IF h.cursor + 1 = h.selection_end
         THEN [h EXCEPT !.selection_end = c + 1]
         ELSE IF c >= h.selection_end
         THEN [h EXCEPT !.selection_start = WrappingSub(h.selection_end, 1),
                        !.selection_end = c + 1]
         ELSE IF h.selection_end <= c
              THEN [h EXCEPT !.selection_start = c, !.selection_end = c + 1]
              ELSE [h EXCEPT !.selection_start = c]
    ELSE IF h.cursor = h.selection_start
         THEN [h EXCEPT !.selection_start = c]
         ELSE IF c < h.selection_start
         THEN [h EXCEPT !.selection_end = h.selection_start + 1,
                        !.selection_start = c]
         ELSE IF c + 1 <= h.selection_start
              THEN [h EXCEPT !.selection_end = c + 1, !.selection_start = c]
              ELSE [h EXCEPT !.selection_end = c + 1]

\* self.selection_end - 1 underflows
ExtendSelectionUnderflows(h, c) ==
    /\ c > h.cursor
    /\ h.cursor + 1 # h.selection_end
    /\ c >= h.selection_end
    /\ h.selection_end = 0

\* set_cursor without the clamp of the target to size - 1
set_cursorNoClamp(h, target) ==
    IF size > 0
    THEN IF target # h.cursor
         THEN (IF h.selecting /\ ExtendSelectionUnderflows(h, target)
               THEN {Panic(h)} ELSE {})
              \cup
              adjust_view([(IF h.selecting THEN ExtendSelection(h, target) ELSE h)
                              EXCEPT !.cursor = target, !.need_redraw = TRUE])
         ELSE {h}
    ELSE {h}

\* set_cursor that extends the selection whether selecting is set or not
set_cursorAlwaysExtending(h, target) ==
    IF size > 0
    THEN LET c == IF target >= size THEN size - 1 ELSE target
         IN  IF c # h.cursor
             THEN adjust_view([ExtendSelectionFromCursor(h, c)
                                  EXCEPT !.cursor = c, !.need_redraw = TRUE])
             ELSE {h}
    ELSE {h}

set_cursor(h, target) ==
    IF size > 0
    THEN LET c == IF target >= size THEN size - 1 ELSE target
         IN  IF c # h.cursor
             THEN (IF h.selecting /\ ExtendSelectionUnderflows(h, c)
                   THEN {Panic(h)} ELSE {})
                  \cup
                  adjust_view([(IF h.selecting THEN ExtendSelection(h, c) ELSE h)
                                  EXCEPT !.cursor = c, !.need_redraw = TRUE])
             ELSE {h}
    ELSE {h}

\* goto_percent with the last offset taken one too small
goto_percentOffByOne(h, percent) ==
    IF size > 1
    THEN LET max_offset == size - 2
         IN  IF percent >= 100
             THEN set_cursor(h, max_offset)
             ELSE IF max_offset > UsizeMax \div 100
             THEN set_cursor(h, (1 + ((max_offset - 1) \div 100)) * percent)
             ELSE (IF max_offset * percent = 0 THEN {Panic(h)} ELSE {})
                  \cup set_cursor(h, 1 + (WrappingSub(max_offset * percent, 1) \div 100))
    ELSE {h}

\* goto_percent that rounds down
goto_percentFloor(h, percent) ==
    IF size > 1
    THEN LET max_offset == size - 1
         IN  IF percent >= 100
             THEN set_cursor(h, max_offset)
             ELSE set_cursor(h, (max_offset * percent) \div 100)
    ELSE {h}

goto_percent(h, percent) ==
    IF size > 1
    THEN LET max_offset == size - 1
         IN  IF percent >= 100
             THEN set_cursor(h, max_offset)
             ELSE IF max_offset > UsizeMax \div 100
             THEN set_cursor(h, (1 + ((max_offset - 1) \div 100)) * percent)
             ELSE \* max_offset * percent - 1 underflows for percent = 0
                  (IF max_offset * percent = 0 THEN {Panic(h)} ELSE {})
                  \cup set_cursor(h, 1 + (WrappingSub(max_offset * percent, 1) \div 100))
    ELSE {h}

\* the pattern occurs at offset o of the file
MatchAt(o, needle) ==
    /\ o + Len(needle) <= size
    /\ Slice(mem, o, o + Len(needle)) = needle

RECURSIVE FindNextFrom(_, _, _)
\* the first offset in offset..end_offset-1 at which search_data occurs, or
\* -1; the slice is in range for every offset < end_offset = size - len + 1
FindNextFrom(offset, end_offset, needle) ==
    IF offset >= end_offset THEN 0 - 1
    ELSE IF Slice(mem, offset, offset + Len(needle)) = needle THEN offset
    ELSE FindNextFrom(offset + 1, end_offset, needle)

\* find_next that ends a selection in progress before it moves the cursor
find_nextCollapsing(h) ==
    LET search_size == Len(h.search_data)
    IN  IF search_size > 0
        THEN LET h1 == [h EXCEPT !.need_redraw = TRUE]
                 found == IF search_size <= size
                          THEN FindNextFrom(h.cursor + 1, size - search_size + 1,
                                            h.search_data)
                          ELSE 0 - 1
             IN  IF found >= 0
                 THEN set_cursor([h1 EXCEPT !.error = "none", !.selecting = FALSE],
                                 found)
                 ELSE {[h1 EXCEPT !.error = "Pattern not found searching forward"]}
        ELSE {h}

\* find_next with the scan started at the cursor instead of cursor + 1
find_nextFromCursor(h) ==
    LET search_size == Len(h.search_data)
    IN  IF search_size > 0
        THEN LET h1 == [h EXCEPT !.need_redraw = TRUE]
                 found == IF search_size <= size
                          THEN FindNextFrom(h.cursor, size - search_size + 1,
                                            h.search_data)
                          ELSE 0 - 1
             IN  IF found >= 0
                 THEN set_cursor([h1 EXCEPT !.error = "none"], found)
                 ELSE {[h1 EXCEPT !.error = "Pattern not found searching forward"]}
        ELSE {h}

find_next(h) ==
    LET search_size == Len(h.search_data)
    IN  IF search_size > 0
        THEN LET h1 == [h EXCEPT !.need_redraw = TRUE]
                 found == IF search_size <= size
                          THEN FindNextFrom(h.cursor + 1, size - search_size + 1,
                                            h.search_data)
                          ELSE 0 - 1
             IN  IF found >= 0
                 THEN set_cursor([h1 EXCEPT !.error = "none"], found)
                 ELSE {[h1 EXCEPT !.error = "Pattern not found searching forward"]}
        ELSE {h}

RECURSIVE FindPreviousFrom(_, _)
\* scans offset, offset-1, .., 0: the offset of the first match, -1 when
\* there is none, -2 when a slice mem[offset..offset+len] is out of range
FindPreviousFrom(offset, needle) ==
    IF offset + Len(needle) > size THEN 0 - 2
    ELSE IF Slice(mem, offset, offset + Len(needle)) = needle THEN offset
    ELSE IF offset = 0 THEN 0 - 1
    ELSE FindPreviousFrom(offset - 1, needle)

\* find_previous without the test of the pattern's length: it scans nothing
\* and reports that the pattern was not found
find_previousUnguarded(h) ==
    {[h EXCEPT !.need_redraw = TRUE,
               !.error = "Pattern not found searching backward"]}

find_previous(h) ==
    LET search_size == Len(h.search_data)
    IN  IF search_size > 0
        THEN LET h1 == [h EXCEPT !.need_redraw = TRUE]
             IN  IF h.cursor > 0
                 THEN (IF size < search_size THEN {Panic(h)} ELSE {})
                      \cup
                      LET start_offset == Min(h.cursor - 1,
                                              WrappingSub(size, search_size))
                          found == FindPreviousFrom(start_offset, h.search_data)
                      IN  IF found >= 0
                          THEN set_cursor([h1 EXCEPT !.error = "none"], found)
                          ELSE IF found = 0 - 2
                          THEN {Panic(h)}
                          ELSE {[h1 EXCEPT !.error =
                                    "Pattern not found searching backward"]}
                 ELSE {[h1 EXCEPT !.error = "Pattern not found searching backward"]}
        ELSE {h}

----------------------------------------------------------------------------
(* The highlight mask *)

\* mask & bit # 0, for a single bit
HasBit(mask, bit) == (mask \div bit) % 2 = 1
\* mask | bit
SetBit(mask, bit) == IF HasBit(mask, bit) THEN mask ELSE mask + bit
\* mask & !bit
ClearBit(mask, bit) == IF HasBit(mask, bit) THEN mask - bit ELSE mask

\* the result of a mask computation: the mask, or a panic
MaskOk(m) == [ok |-> TRUE, mask |-> m]
MaskPanic == [ok |-> FALSE, mask |-> <<>>]

\* one occurrence found at offset: the body of the if in set_search_mask
MarkMatch(m, vo, offset, needle_len, mask_match, mask_end) ==
    LET view_end_offset == Min(vo + Len(m), size)
        match_offset_start == Max(vo, offset)
        match_offset_end == Min(view_end_offset, offset + needle_len)
        first_view_index == match_offset_start - vo
        last_view_index == match_offset_end - vo - 1
    IN  IF last_view_index < 0 \/ last_view_index >= Len(m)
        THEN MaskPanic
        ELSE LET m1 == [i \in 1..Len(m) |->
                          IF first_view_index < last_view_index
                             /\ i - 1 >= first_view_index /\ i - 1 < last_view_index
                          THEN SetBit(ClearBit(m[i], mask_end), mask_match)
                          ELSE m[i]]
             IN  MaskOk([m1 EXCEPT ![last_view_index + 1] =
                            IF ~HasBit(m1[last_view_index + 1], mask_match)
                            THEN SetBit(SetBit(m1[last_view_index + 1], mask_end), mask_match)
                            ELSE m1[last_view_index + 1]])

RECURSIVE SearchMaskLoop(_, _, _, _, _, _, _)
\* for offset in offset..end_offset of set_search_mask
SearchMaskLoop(m, vo, offset, end_offset, needle, mask_match, mask_end) ==
    IF offset >= end_offset THEN MaskOk(m)
    ELSE IF offset + Len(needle) > size THEN MaskPanic
    ELSE IF Slice(mem, offset, offset + Len(needle)) = needle
    THEN LET r == MarkMatch(m, vo, offset, Len(needle), mask_match, mask_end)
         IN  IF r.ok
             THEN SearchMaskLoop(r.mask, vo, offset + 1, end_offset, needle,
                                 mask_match, mask_end)
             ELSE MaskPanic
    ELSE SearchMaskLoop(m, vo, offset + 1, end_offset, needle,
                        mask_match, mask_end)

set_search_mask(m, vo, needle, mask_match, mask_end) ==
    LET needle_len == Len(needle)
    IN  IF needle_len > 0
        THEN LET start_offset == IF vo > needle_len - 1
                                 THEN vo + 1 - needle_len
                                 ELSE 0
                 end_offset0 == vo + Len(m) + needle_len - 1
                 end_offset == IF end_offset0 <= size
                               THEN end_offset0
                               ELSE WrappingSub(size + 1, needle_len)
             IN  IF end_offset0 > size /\ size + 1 < needle_len
                 THEN \* the overflow check, or the first slice of the wrapped range
                      MaskPanic
                 ELSE SearchMaskLoop(m, vo, start_offset, end_offset, needle,
                                     mask_match, mask_end)
        ELSE MaskOk(m)

\* SelectionMask without the clipping of the selection end to the viewport:
\* the run end is put on the cell of selection_end - 1 alone
SelectionMaskUnclipped(h) ==
    [i \in 1..h.view_size |->
        LET o == h.view_offset + i - 1
        IN  IF o >= h.selection_start /\ o < h.selection_end
            THEN IF o + 1 = h.selection_end
                 THEN MASK_SELECTED + MASK_SELECTED_END
                 ELSE MASK_SELECTED
            ELSE 0]

\* the selection pass of redraw over a zero-filled mask
SelectionMask(h) ==
    LET zero == [i \in 1..h.view_size |-> 0]
        mask_selection_start_offset ==
            IF h.view_offset < h.selection_start
            THEN h.selection_start - h.view_offset
            ELSE 0
    IN  IF mask_selection_start_offset < h.view_size /\ h.selection_end > h.view_offset
        THEN LET mask_selection_end_offset ==
                     Min(h.selection_end - h.view_offset, h.view_size)
             IN  IF mask_selection_end_offset > mask_selection_start_offset
                 THEN [i \in 1..h.view_size |->
                         IF i = mask_selection_end_offset
                         THEN MASK_SELECTED + MASK_SELECTED_END
                         ELSE IF i - 1 >= mask_selection_start_offset
                                 /\ i - 1 < mask_selection_end_offset
                         THEN MASK_SELECTED
                         ELSE 0]
                 ELSE zero
        ELSE zero

\* the rebuild of view_mask in redraw
BuildViewMask(h) ==
    IF h.selection_start > h.selection_end \/ h.selection_end > size
    THEN MaskPanic   \* &mem[selection_start..selection_end]
    ELSE LET r1 == set_search_mask(SelectionMask(h), h.view_offset,
                       Slice(mem, h.selection_start, h.selection_end),
                       MASK_HIGHLIGHT, MASK_HIGHLIGHT_END)
         IN  IF r1.ok
             THEN set_search_mask(r1.mask, h.view_offset, h.search_data,
                                  MASK_SEARCH, MASK_SEARCH_END)
             ELSE MaskPanic

\* the largest index of view_mask the row loop of redraw reads, -1 if none
LastMaskIndexRead(h) ==
    LET view_end_offset == Min(h.view_offset + h.view_size, size)
    IN  IF h.view_offset >= view_end_offset THEN 0 - 1
        ELSE LET last_row == h.view_offset
                     + ((view_end_offset - 1 - h.view_offset) \div h.bytes_per_row)
                       * h.bytes_per_row
             IN  Min(last_row + h.bytes_per_row, size) - 1 - h.view_offset

redraw(h) ==
    IF h.bytes_per_row = 0 \/ h.win_rows < 8
    THEN [h EXCEPT !.need_redraw = FALSE, !.last = "redraw"]
    ELSE LET r == IF h.view_mask_valid THEN MaskOk(h.view_mask) ELSE BuildViewMask(h)
         IN  IF ~r.ok
             THEN [Panic(h) EXCEPT !.last = "redraw"]
             ELSE LET h1 == [h EXCEPT !.view_mask = r.mask, !.view_mask_valid = TRUE]
                  IN  IF LastMaskIndexRead(h1) >= Len(h1.view_mask)
                      THEN [Panic(h) EXCEPT !.last = "redraw"]
                      ELSE [h1 EXCEPT !.need_redraw = FALSE, !.last = "redraw"]

\* ColorPair numbers of consts.rs
PAIR_NORMAL              == 1
PAIR_NON_ASCII           == 4
PAIR_CURSOR              == 5
PAIR_SELECTION           == 6
PAIR_SELECTED_CURSOR     == 7
PAIR_SELECTION_MATCH     == 9
PAIR_SEARCH_MATCH        == 12
PAIR_SEARCH_MATCH_CURSOR == 13

is_sidebar_ascii(byte) == byte >= 32 /\ byte <= 126

\* redraw: the attributes the two hex digits of the byte at byte_offset are
\* written with
HexCellAttrs(h, byte_offset) ==
    LET mask == h.view_mask[byte_offset - h.view_offset + 1]
    IN  IF byte_offset = h.cursor
        THEN IF HasBit(mask, MASK_SELECTED) THEN PAIR_SELECTED_CURSOR
             ELSE IF HasBit(mask, MASK_SEARCH) THEN PAIR_SEARCH_MATCH_CURSOR
             ELSE PAIR_CURSOR
        ELSE IF HasBit(mask, MASK_SELECTED) THEN PAIR_SELECTION
             ELSE IF HasBit(mask, MASK_SEARCH) THEN PAIR_SEARCH_MATCH
             ELSE IF HasBit(mask, MASK_HIGHLIGHT) THEN PAIR_SELECTION_MATCH
             ELSE PAIR_NORMAL

\* redraw: the attributes the character of the byte at byte_offset is written
\* with in the ASCII column
AsciiCellAttrs(h, byte_offset) ==
    LET mask == h.view_mask[byte_offset - h.view_offset + 1]
    IN  IF byte_offset = h.cursor
        THEN IF HasBit(mask, MASK_SELECTED) THEN PAIR_SELECTED_CURSOR
             ELSE IF HasBit(mask, MASK_SEARCH) THEN PAIR_SEARCH_MATCH_CURSOR
             ELSE PAIR_CURSOR
        ELSE IF HasBit(mask, MASK_SELECTED) THEN PAIR_SELECTION
             ELSE IF HasBit(mask, MASK_SEARCH) THEN PAIR_SEARCH_MATCH
             ELSE IF HasBit(mask, MASK_HIGHLIGHT) THEN PAIR_SELECTION_MATCH
             ELSE IF is_sidebar_ascii(mem[byte_offset + 1]) THEN PAIR_NORMAL
             ELSE PAIR_NON_ASCII

\* redraw: the byte offsets of the cells it draws
DrawnOffsets(h) ==
    IF h.bytes_per_row = 0 \/ h.win_rows < 8 THEN {}
    ELSE h.view_offset..(Min(h.view_offset + h.view_size, size) - 1)

----------------------------------------------------------------------------
(* Input events *)

\* Input::Character(_) keys: control characters and printable characters
ControlChars == {"CANCEL", "DEVICE_CONTROL3", "END_OF_TRANSMISSION", "END_OF_MEDIUM",
                 "ESCAPE", "ENTER", "TAB"}
PercentChars == {"1", "2", "3", "4", "5", "6", "7", "8", "9"}
PrintableChars == PercentChars \cup
                  {"0", "$", "e", "i", "s", "S", "#", "o", "+", "-", "f", "/", "F",
                   "n", "P", "p", "N", "w", "h", "q", "x", "a"}
CharKeys == ControlChars \cup PrintableChars
\* the other keys; KeyF5 stands for KeyF5 .. KeyF8, which the code treats alike
\* outside the search term
SpecialKeys == {"KeyDown", "KeyUp", "KeyLeft", "KeyRight", "KeyHome", "KeyEnd",
                "KeyPPage", "KeyNPage", "KeyResize", "KeyF1", "KeyF3", "KeyF5",
                "KeyIC", "KeyDC", "KeyBackspace"}
Keys == CharKeys \cup SpecialKeys

PercentOf(key) ==
    CASE key = "1" -> 10 [] key = "2" -> 20 [] key = "3" -> 30
      [] key = "4" -> 40 [] key = "5" -> 50 [] key = "6" -> 60
      [] key = "7" -> 70 [] key = "8" -> 80 [] key = "9" -> 90

\* the operation that ran, whether it returned or panicked
WithLast(S, name) == { [r EXCEPT !.last = name] : r \in S }

ClearError(S) == { IF Ok(r) THEN [r EXCEPT !.error = "none"] ELSE r : r \in S }

NeedRedraw(S) == { IF Ok(r) THEN [r EXCEPT !.need_redraw = TRUE] ELSE r : r \in S }

\* a blur that leaves the widgets focused
BlurNothing(h, ws) == h

Blur(h, ws) == [h EXCEPT !.focused = [w \in Widgets |-> IF w \in ws THEN FALSE ELSE @[w]]]

Focus(h, w) == [h EXCEPT !.focused[w] = TRUE]

const_space == hex_len(size) + 5

resize(h, rows, cols) ==
    IF rows # h.win_rows \/ cols # h.win_cols
    THEN LET h1 == [h EXCEPT !.win_rows = rows, !.win_cols = cols, !.need_redraw = TRUE]
             h2 == IF rows < BOTTOM_WIN_HEIGHT \/ const_space + 3 > cols
                   THEN [h1 EXCEPT !.bytes_per_row = 0, !.view_size = 0]
                   ELSE LET rest == cols - const_space
                            bpr == (rest + 1) \div 4
                        IN  [h1 EXCEPT !.bytes_per_row = bpr,
                                       !.view_size = bpr * (rows - BOTTOM_WIN_HEIGHT)]
         IN  adjust_view(h2)
    ELSE {h}

KeyPPage(h) ==
    ClearError(
        IF h.view_offset > 0
        THEN NeedRedraw(
               IF h.view_offset >= h.view_size
               THEN (IF h.cursor < h.view_size THEN {Panic(h)} ELSE {})
                    \cup set_cursor([h EXCEPT !.view_offset = @ - h.view_size],
                                    WrappingSub(h.cursor, h.view_size))
               ELSE (IF h.cursor < h.view_offset THEN {Panic(h)} ELSE {})
                    \cup set_cursor([h EXCEPT !.view_offset = 0],
                                    WrappingSub(h.cursor, h.view_offset)))
        ELSE {h})

KeyNPage(h) ==
    IF h.view_size < size /\ h.bytes_per_row = 0
    THEN {Panic(h)}    \* size % self.bytes_per_row
    ELSE (IF h.bytes_per_row > 0 /\ MaxViewOffsetUnderflows(h) THEN {Panic(h)} ELSE {})
         \cup
         ClearError(
            LET max_view_offset == IF h.bytes_per_row > 0 THEN MaxViewOffset(h) ELSE 0
            IN  IF h.view_offset < max_view_offset
                THEN LET vo == h.view_offset + h.view_size
                         c == h.cursor + h.view_size
                         h1 == [h EXCEPT !.view_offset =
                                   IF vo > max_view_offset THEN max_view_offset ELSE vo]
                     IN  NeedRedraw(
                            IF c >= size
                            THEN (IF c < h.bytes_per_row THEN {Panic(h)} ELSE {})
                                 \cup set_cursor(h1, WrappingSub(c, h.bytes_per_row))
                            ELSE set_cursor(h1, c))
                ELSE {h})

RECURSIVE LineStart(_)
\* the start of the run of printable ASCII that ends before index start_index
LineStart(start_index) ==
    IF start_index > 0 /\ is_printable_ascii(mem[start_index])
    THEN LineStart(start_index - 1)
    ELSE start_index

RECURSIVE LineEnd(_)
LineEnd(end_index) ==
    IF end_index < size /\ is_printable_ascii(mem[end_index + 1])
    THEN LineEnd(end_index + 1)
    ELSE end_index

\* Input::Character('#')
SelectLine(h) ==
    IF size > 0
    THEN LET h1 == IF ~is_printable_ascii(mem[h.cursor + 1])
                   THEN [h EXCEPT !.selecting = FALSE,
                                  !.error = "No ASCII character under cursor"]
                   ELSE [h EXCEPT !.error = "none"]
             start_index == LineStart(h.cursor)
             end_index == LineEnd(h.cursor + 1)
         IN  adjust_view(Invalidate([h1 EXCEPT
                 !.cursor = end_index - 1,
                 !.selection_start = start_index,
                 !.selection_end = end_index,
                 !.selecting = TRUE,
                 !.need_redraw = TRUE]))
    ELSE {[h EXCEPT !.error = "none"]}

ClearSelection(h) ==
    Invalidate([h EXCEPT !.selecting = FALSE, !.selection_start = 0,
                         !.selection_end = 0, !.need_redraw = TRUE, !.error = "none"])

\* Hox::handle; rows and cols are the window size a KeyResize finds
handle(h, key, rows, cols) ==
    CASE key = "KeyDown" ->
           WithLast(ClearError(IF h.cursor + h.bytes_per_row < size
                               THEN set_cursor(h, h.cursor + h.bytes_per_row)
                               ELSE {h}), "move")
      [] key = "KeyUp" ->
           WithLast(ClearError(IF h.cursor >= h.bytes_per_row
                               THEN set_cursor(h, h.cursor - h.bytes_per_row)
                               ELSE {h}), "move")
      [] key = "KeyLeft" ->
           WithLast(ClearError(IF h.cursor > 0 THEN set_cursor(h, h.cursor - 1)
                               ELSE {h}), "move")
      [] key = "KeyRight" ->
           WithLast(ClearError(set_cursor(h, h.cursor + 1)), "move")
      [] key = "KeyHome" ->
           WithLast(ClearError(IF h.bytes_per_row > 0
                               THEN set_cursor(h, h.cursor - (h.cursor % h.bytes_per_row))
                               ELSE {h}), "move")
      [] key = "KeyEnd" ->
           WithLast(ClearError(
               IF size > 0 /\ h.bytes_per_row > 0
               THEN set_cursor(h, Min(h.cursor + h.bytes_per_row
                                        - (h.cursor % h.bytes_per_row), size) - 1)
               ELSE {h}), "move")
      [] key \in {"CANCEL", "0"} ->
           WithLast(ClearError(IF h.cursor # 0 THEN set_cursor(h, 0) ELSE {h}), "move")
      [] key \in PercentChars ->
           WithLast(ClearError(goto_percent(h, PercentOf(key))), "move")
      [] key \in {"DEVICE_CONTROL3", "$"} ->
           WithLast(ClearError(IF size > 0 THEN set_cursor(h, size - 1) ELSE {h}), "move")
      [] key = "KeyPPage" -> WithLast(KeyPPage(h), "page_up")
      [] key = "KeyNPage" -> WithLast(KeyNPage(h), "page_down")
      [] key = "KeyResize" -> WithLast(resize(h, rows, cols), "resize")
      [] key \in {"e", "i"} ->
           {[h EXCEPT !.need_redraw = TRUE, !.error = "none", !.last = "other"]}
      [] key = "s" ->
           {[(IF h.selecting
              THEN [h EXCEPT !.selecting = FALSE]
              ELSE Invalidate([h EXCEPT !.selection_start = h.cursor,
                                        !.selection_end = h.cursor + 1,
                                        !.selecting = TRUE]))
             EXCEPT !.need_redraw = TRUE, !.error = "none", !.last = "other"]}
      [] key = "ENTER" /\ h.selecting ->
           {[h EXCEPT !.selecting = FALSE, !.need_redraw = TRUE, !.error = "none",
                      !.last = "other"]}
      [] key = "ESCAPE" /\ h.selecting ->
           {[ClearSelection(h) EXCEPT !.last = "other"]}
      [] key = "S" ->
           {[ClearSelection(h) EXCEPT !.last = "other"]}
      [] key = "#" -> WithLast(SelectLine(h), "select_line")
      [] key = "o" ->
           {[Focus(Blur(h, {"file_input", "search_widget", "rel_offset_input"}),
                   "offset_input")
             EXCEPT !.need_redraw = TRUE, !.error = "none", !.last = "other"]}
      [] key \in {"+", "-"} ->
           {[Focus(Blur(h, {"file_input", "offset_input", "search_widget"}),
                   "rel_offset_input")
             EXCEPT !.need_redraw = TRUE, !.error = "none", !.last = "other"]}
      [] key \in {"f", "/", "KeyF3"} ->
           LET h1 == [Blur(h, {"file_input", "offset_input", "rel_offset_input"})
                      EXCEPT !.error = "none", !.selecting = FALSE, !.last = "other"]
           IN  IF h.selection_end > h.selection_start /\ h.selection_end > size
               THEN {Panic(h1)}   \* &mem[selection_start..selection_end]
               ELSE {[Focus(h1, "search_widget") EXCEPT !.need_redraw = TRUE]}
      [] key = "F" ->
           {[Invalidate(Blur(h, {"search_widget"}))
             EXCEPT !.error = "none", !.search_data = <<>>, !.need_redraw = TRUE,
                    !.last = "other"]}
      [] key \in {"n", "P"} -> WithLast(find_next(h), "find_next")
      [] key \in {"p", "N"} -> WithLast(find_previous(h), "find_previous")
      [] key = "w" ->
           {[(IF h.selection_start < h.selection_end
              THEN [Focus(Blur(h, {"search_widget", "offset_input", "rel_offset_input"}),
                          "file_input")
                    EXCEPT !.error = "none", !.selecting = FALSE]
              ELSE [h EXCEPT !.error = "Nothing selected"])
             EXCEPT !.need_redraw = TRUE, !.last = "other"]}
      [] key \in {"h", "KeyF1"} ->
           {[h EXCEPT !.selecting = FALSE, !.help_shown = TRUE, !.need_redraw = TRUE,
                      !.last = "other"]}
      [] key \in {"q", "END_OF_TRANSMISSION"} ->
           {[h EXCEPT !.status = "quit", !.last = "other"]}
      [] OTHER -> {h}

----------------------------------------------------------------------------
(* The answers of the widgets.  The text buffers are not modelled: where   *)
(* the answer depends on the buffer, every answer the code has is taken.   *)

\* TextBox::handle
HelpBoxResults(key) ==
    CASE key \in {"KeyHome", "KeyEnd"} -> {"Redraw"}
      [] key \in {"KeyUp", "KeyDown", "KeyNPage", "KeyPPage", "CANCEL",
                  "DEVICE_CONTROL3"} -> {"Redraw", "Ignore"}
      [] key = "KeyResize" -> {"PropagateEvent"}
      [] key \in {"q", "ESCAPE", "END_OF_TRANSMISSION"} -> {"Quit"}
      [] OTHER -> {"Ignore"}

\* NumberInput::handle of a focused input; "Blur" is Redraw with focused = false
NumberInputResults(key) ==
    CASE key \in PercentChars \cup {"0", "+", "-", "e"} -> {"Redraw", "Ignore"}
      [] key \in {"x", "KeyHome", "KeyEnd"} -> {"Redraw"}
      [] key \in {"KeyLeft", "KeyRight", "KeyDC", "KeyBackspace"} -> {"Redraw", "Ignore"}
      [] key \in {"q", "ESCAPE", "END_OF_TRANSMISSION"} -> {"Blur"}
      [] key = "ENTER" -> {"Value", "Beep"}
      [] key \in {"KeyUp", "KeyDown"} -> {"Ignore"}
      [] OTHER -> {"PropagateEvent"}

\* FileInput::handle of a focused input
FileInputResults(key) ==
    CASE key \in {"TAB", "KeyHome", "KeyEnd"} -> {"Redraw"}
      [] key \in {"KeyLeft", "KeyRight", "KeyDC", "KeyBackspace", "KeyUp", "KeyDown"} ->
           {"Redraw", "Ignore"}
      [] key \in {"ESCAPE", "END_OF_TRANSMISSION"} -> {"Blur"}
      [] key = "ENTER" -> {"Ignore", "Value"}
      [] key \in CharKeys -> {"Redraw"}
      [] OTHER -> {"PropagateEvent"}

\* SearchWidget::handle of a focused widget
SearchWidgetResults(key) ==
    CASE key \in {"KeyHome", "KeyEnd", "END_OF_MEDIUM", "KeyF5"} -> {"Redraw"}
      [] key \in {"KeyLeft", "KeyRight", "KeyIC", "KeyDC", "KeyBackspace"} ->
           {"Redraw", "Ignore"}
      [] key \in {"ESCAPE", "END_OF_TRANSMISSION"} -> {"Blur"}
      [] key \in {"ENTER", "KeyF3"} -> {"Ignore", "Value"}
      [] key \in ControlChars -> {"PropagateEvent"}
      [] key = "q" -> {"Blur", "Redraw"}
      [] key \in PrintableChars -> {"Redraw", "PropagateEvent"}
      [] key \in {"KeyUp", "KeyDown"} -> {"Ignore"}
      [] OTHER -> {"PropagateEvent"}

\* what run does with the answers that carry no value
Answer(h, w, res) ==
    CASE res = "Redraw" -> [h EXCEPT !.need_redraw = TRUE, !.last = "other"]
      [] res = "Blur" -> [Blur(h, {w}) EXCEPT !.need_redraw = TRUE, !.last = "other"]
      [] OTHER -> h   \* Ignore, Beep

\* WidgetResult::Value of the relative offset input
RelativeTarget(c, value) ==
    IF value < 0
    THEN IF 0 - value > c THEN 0 ELSE c - (0 - value)
    ELSE IF value > UsizeMax - c THEN c ELSE c + value

----------------------------------------------------------------------------
(* The event loop of Hox::run *)

Init ==
    /\ status = "init"
    /\ mem \in Files
    /\ win_rows = 0
    /\ win_cols = 0
    /\ bytes_per_row = 0
    /\ view_size = 0
    /\ view_offset = 0
    /\ cursor = 0
    /\ selection_start = 0
    /\ selection_end = 0
    /\ selecting = FALSE
    /\ need_redraw = TRUE
    /\ view_mask = <<>>
    /\ view_mask_valid = FALSE
    /\ error = "none"
    /\ search_data = <<>>
    /\ focused = [w \in Widgets |-> FALSE]
    /\ help_shown = FALSE
    /\ last = "new"
    /\ widget_mode = [kind |-> "String", size |-> 1, sign |-> "Unsigned",
                      endian |-> "Little"]
    /\ widget_buf = <<>>
    /\ given = <<>>
    /\ returned = [err |-> "none", val |-> <<>>]
    /\ widget_cursor = 0
    /\ widget_view_offset = 0
    /\ prev_mode = widget_mode
    /\ pressed = 0
    /\ help_box = TextBoxNew

Reading == status = "running" /\ ~need_redraw

\* the size the window has when a resize is handled
WindowSizes(key) == IF key = "KeyResize" THEN WinSizes ELSE {<<win_rows, win_cols>>}

\* self.resize() at the start of run
Start ==
    /\ status = "init"
    /\ \E win \in WinSizes :
         \E r \in WithLast(resize([Self EXCEPT !.status = "running"], win[1], win[2]),
                           "resize") :
            Commit(r)

\* if self.need_redraw { self.redraw()?; self.need_redraw = false; }
Redraw ==
    /\ status = "running"
    /\ need_redraw
    /\ Commit(redraw(Self))

HelpEvent ==
    /\ Reading
    /\ help_shown
    /\ \E key \in Keys, win \in WinSizes :
         /\ win \in WindowSizes(key)
         /\ IF key \in {"h", "KeyF1"}
            THEN Commit([Self EXCEPT !.help_shown = FALSE, !.need_redraw = TRUE,
                                     !.last = "other"])
            ELSE \E res \in HelpBoxResults(key) :
                   CASE res = "Redraw" ->
                          Commit([Self EXCEPT !.need_redraw = TRUE, !.last = "other"])
                     [] res = "Ignore" -> Commit(Self)
                     [] res = "Quit" ->
                          Commit([Self EXCEPT !.help_shown = FALSE, !.need_redraw = TRUE,
                                              !.last = "other"])
                     [] res = "PropagateEvent" ->
                          \E r \in handle(Self, key, win[1], win[2]) : Commit(r)

ErrorEvent ==
    /\ Reading
    /\ ~help_shown
    /\ error # "none"
    /\ \E key \in Keys, win \in WinSizes :
         /\ win \in WindowSizes(key)
         /\ IF key \in CharKeys /\ key # "h"
            THEN Commit([Self EXCEPT !.error = "none", !.need_redraw = TRUE,
                                     !.last = "other"])
            ELSE \E r \in handle(Self, key, win[1], win[2]) : Commit(r)

FileInputEvent ==
    /\ Reading
    /\ ~help_shown
    /\ error = "none"
    /\ focused["file_input"]
    /\ \E key \in Keys, win \in WinSizes :
         /\ win \in WindowSizes(key)
         /\ \E res \in FileInputResults(key) :
              CASE res = "PropagateEvent" ->
                     \E r \in handle(Self, key, win[1], win[2]) : Commit(r)
                [] res = "Value" ->
                     \* File::create fails, or it succeeds and the selected bytes
                     \* are sliced and written, which succeeds or fails
                     \E e \in {"create", "none", "write"} :
                        LET h1 == [Blur(Self, {"file_input"}) EXCEPT
                                      !.need_redraw = TRUE, !.last = "other"]
                        IN  IF e # "create" /\ (selection_start > selection_end
                                                \/ selection_end > size)
                            THEN Commit(Panic(h1))
                            ELSE Commit([h1 EXCEPT !.error =
                                            IF e = "none" THEN "none" ELSE "io"])
                [] OTHER -> Commit(Answer(Self, "file_input", res))

SearchWidgetEvent ==
    /\ Reading
    /\ ~help_shown
    /\ error = "none"
    /\ ~focused["file_input"]
    /\ focused["search_widget"]
    /\ \E key \in Keys, win \in WinSizes :
         /\ win \in WindowSizes(key)
         /\ \E res \in SearchWidgetResults(key) :
              CASE res = "PropagateEvent" ->
                     \E r \in handle(Self, key, win[1], win[2]) : Commit(r)
                [] res = "Value" ->
                     \E bytes \in Patterns :
                        \E r \in WithLast(find_next(Invalidate(
                                     [Self EXCEPT !.search_data = bytes,
                                                  !.need_redraw = TRUE])), "find_next") :
                           Commit(r)
                [] OTHER -> Commit(Answer(Self, "search_widget", res))

OffsetInputEvent ==
    /\ Reading
    /\ ~help_shown
    /\ error = "none"
    /\ ~focused["file_input"]
    /\ ~focused["search_widget"]
    /\ focused["offset_input"]
    /\ \E key \in Keys, win \in WinSizes :
         /\ win \in WindowSizes(key)
         /\ \E res \in NumberInputResults(key) :
              CASE res = "PropagateEvent" ->
                     \E r \in handle(Self, key, win[1], win[2]) : Commit(r)
                [] res = "Value" ->
                     \E value \in 0..MaxEntry :
                        \E r \in WithLast(NeedRedraw(
                                     set_cursor(Blur(Self, {"offset_input"}), value)),
                                     "goto") :
                           Commit(r)
                [] OTHER -> Commit(Answer(Self, "offset_input", res))

RelOffsetInputEvent ==
    /\ Reading
    /\ ~help_shown
    /\ error = "none"
    /\ ~focused["file_input"]
    /\ ~focused["search_widget"]
    /\ ~focused["offset_input"]
    /\ focused["rel_offset_input"]
    /\ \E key \in Keys, win \in WinSizes :
         /\ win \in WindowSizes(key)
         /\ \E res \in NumberInputResults(key) :
              CASE res = "PropagateEvent" ->
                     \E r \in handle(Self, key, win[1], win[2]) : Commit(r)
                [] res = "Value" ->
                     \E value \in (0 - MaxEntry)..MaxEntry :
                        \E r \in WithLast(NeedRedraw(
                                     set_cursor(Blur(Self, {"rel_offset_input"}),
                                                RelativeTarget(cursor, value))),
                                     "goto") :
                           Commit(r)
                [] OTHER -> Commit(Answer(Self, "rel_offset_input", res))

MainEvent ==
    /\ Reading
    /\ ~help_shown
    /\ error = "none"
    /\ \A w \in Widgets : ~focused[w]
    /\ \E key \in Keys, win \in WinSizes :
         /\ win \in WindowSizes(key)
         /\ \E r \in handle(Self, key, win[1], win[2]) : Commit(r)

Next ==
    \/ Start
    \/ Redraw
    \/ HelpEvent
    \/ ErrorEvent
    \/ FileInputEvent
    \/ SearchWidgetEvent
    \/ OffsetInputEvent
    \/ RelOffsetInputEvent
    \/ MainEvent

Spec == Init /\ [][Next]_vars

----------------------------------------------------------------------------
(* Navigation alone, on longer files and more window sizes: the event loop *)
(* with the keys that move the cursor or the viewport and nothing else.    *)

\* largest file size of the navigation specifications
MaxNavSize == 9

NavFiles == { SubSeq(BaseFile, 1, n) : n \in 0..MaxNavSize }

\* <<rows, columns>>: bytes_per_row 2 with 0, 1 and 2 rows, bytes_per_row 0,
\* bytes_per_row 3 with 1 row, bytes_per_row 1 with 3 rows
NavWinSizes == { <<7, 13>>, <<8, 13>>, <<9, 13>>, <<9, 8>>, <<8, 17>>, <<10, 9>> }

NavKeys == {"KeyDown", "KeyUp", "KeyLeft", "KeyRight", "KeyHome", "KeyEnd",
            "KeyPPage", "KeyNPage", "KeyResize", "CANCEL", "0", "DEVICE_CONTROL3", "$"}
           \cup PercentChars

InitNav ==
    /\ status = "init"
    /\ mem \in NavFiles
    /\ win_rows = 0
    /\ win_cols = 0
    /\ bytes_per_row = 0
    /\ view_size = 0
    /\ view_offset = 0
    /\ cursor = 0
    /\ selection_start = 0
    /\ selection_end = 0
    /\ selecting = FALSE
    /\ need_redraw = TRUE
    /\ view_mask = <<>>
    /\ view_mask_valid = FALSE
    /\ error = "none"
    /\ search_data = <<>>
    /\ focused = [w \in Widgets |-> FALSE]
    /\ help_shown = FALSE
    /\ last = "new"
    /\ widget_mode = [kind |-> "String", size |-> 1, sign |-> "Unsigned",
                      endian |-> "Little"]
    /\ widget_buf = <<>>
    /\ given = <<>>
    /\ returned = [err |-> "none", val |-> <<>>]
    /\ widget_cursor = 0
    /\ widget_view_offset = 0
    /\ prev_mode = widget_mode
    /\ pressed = 0
    /\ help_box = TextBoxNew

StartNav ==
    /\ status = "init"
    /\ \E win \in NavWinSizes :
         \E r \in WithLast(resize([Self EXCEPT !.status = "running"], win[1], win[2]),
                           "resize") :
            Commit(r)

NavEvent ==
    /\ Reading
    /\ \E key \in NavKeys, win \in NavWinSizes :
         /\ key # "KeyResize" => win = <<win_rows, win_cols>>
         /\ \E r \in handle(Self, key, win[1], win[2]) : Commit(r)

NextNav ==
    \/ StartNav
    \/ Redraw
    \/ NavEvent

SpecNav == InitNav /\ [][NextNav]_vars

\* the percentages goto_percent is called with
Percents == {0, 1, 12, 13, 25, 26, 50, 51, 75, 90, 99, 100, 101}

\* a call of goto_percent from any state the navigation reaches
GotoPercentCall ==
    /\ Reading
    /\ \E percent \in Percents :
         \E r \in WithLast(goto_percent(Self, percent),
                           "goto_percent_" \o ToString(percent)) :
            Commit(r)

NextPercent ==
    \/ StartNav
    \/ Redraw
    \/ NavEvent
    \/ GotoPercentCall

SpecPercent == InitNav /\ [][NextPercent]_vars

----------------------------------------------------------------------------
(* The search widget's codec: SearchMode::parse and SearchMode::stringify. *)
(* A char is its Unicode scalar value, a String a sequence of chars, a     *)
(* Vec<u8> a sequence of bytes.  Integers wider than the checker's are     *)
(* kept as big-endian byte sequences and converted digit by digit.         *)

\* longest typed text, and longest byte string given to the String and
\* Binary modes
MaxLen == 4

\* IntSize as the number of bytes of the integer
I8 == 1
I16 == 2
I32 == 4
I64 == 8
IntSizes == {I8, I16, I32, I64}
Signs == {"Signed", "Unsigned"}
Endians == {"Little", "Big"}

\* enum SearchMode
SearchModes ==
    { [kind |-> "String", size |-> I8, sign |-> "Unsigned", endian |-> "Little"],
      [kind |-> "Binary", size |-> I8, sign |-> "Unsigned", endian |-> "Little"] }
    \cup [kind : {"Integer"}, size : IntSizes, sign : Signs, endian : Endians]

\* the chars the code names
CH_SPACE == 32
CH_PLUS == 43
CH_MINUS == 45
CH_0 == 48
CH_9 == 57
CH_UPPER_A == 65
CH_UPPER_F == 70
CH_LOWER_A == 97
CH_LOWER_F == 102

\* Result<_>: err is "none" for Ok(val)
Done(val) == [err |-> "none", val |-> val]
Err(msg) == [err |-> msg, val |-> <<>>]

Reverse(s) == [i \in 1..Len(s) |-> s[Len(s) + 1 - i]]

IsZero(bytes) == \A i \in 1..Len(bytes) : bytes[i] = 0

\* big-endian bytes divided by ten: <<quotient, remainder>>
RECURSIVE Div10(_, _)
Div10(bytes, carry) ==
    IF bytes = <<>> THEN << <<>>, carry >>
    ELSE LET cur == (carry * 256) + Head(bytes)
             rest == Div10(Tail(bytes), cur % 10)
         IN  << <<cur \div 10>> \o rest[1], rest[2] >>

\* big-endian bytes times ten plus add, in the same width: <<bytes, carry out>>
RECURSIVE MulAdd10(_, _)
MulAdd10(bytes, add) ==
    IF bytes = <<>> THEN << <<>>, add >>
    ELSE LET n == Len(bytes)
             cur == (bytes[n] * 10) + add
             rest == MulAdd10(SubSeq(bytes, 1, n - 1), cur \div 256)
         IN  << Append(rest[1], cur % 256), rest[2] >>

\* big-endian bytes plus one, wrapping in the same width
RECURSIVE AddOne(_)
AddOne(bytes) ==
    IF bytes = <<>> THEN <<>>
    ELSE LET n == Len(bytes)
         IN  IF bytes[n] = 255 THEN Append(AddOne(SubSeq(bytes, 1, n - 1)), 0)
             ELSE [bytes EXCEPT ![n] = bytes[n] + 1]

\* two's complement negation in the same width
Negate(bytes) == AddOne([i \in 1..Len(bytes) |-> 255 - bytes[i]])

\* the decimal digits of a nonzero unsigned big-endian number, as chars
RECURSIVE DecimalDigits(_)
DecimalDigits(bytes) ==
    IF IsZero(bytes) THEN <<>>
    ELSE LET qr == Div10(bytes, 0)
         IN  Append(DecimalDigits(qr[1]), CH_0 + qr[2])

\* format!("{}", v) of an unsigned integer given as big-endian bytes
FormatUnsigned(bytes) == IF IsZero(bytes) THEN <<CH_0>> ELSE DecimalDigits(bytes)

\* format!("{}", v) of a signed integer given as big-endian two's complement
FormatSigned(bytes) ==
    IF bytes[1] >= 128 THEN <<CH_MINUS>> \o FormatUnsigned(Negate(bytes))
    ELSE FormatUnsigned(bytes)

\* uN::from_le_bytes / from_be_bytes: the value as big-endian bytes
from_bytes(endian, input) == IF endian = "Little" THEN Reverse(input) ELSE input

to_bytesSwapped(endian, value) == IF endian = "Little" THEN value ELSE Reverse(value)

\* value.to_le_bytes() / to_be_bytes() of a value kept as big-endian bytes
to_bytes(endian, value) == IF endian = "Little" THEN Reverse(value) ELSE value

\* the digits of str[i..] accumulated into acc, as str::parse does: the
\* first char that is no digit or the first step that leaves the width ends it
RECURSIVE ParseDigits(_, _, _, _)
ParseDigits(str, i, acc, overflow) ==
    IF i > Len(str) THEN Done(acc)
    ELSE IF str[i] < CH_0 \/ str[i] > CH_9 THEN Err("invalid digit found in string")
    ELSE LET step == MulAdd10(acc, str[i] - CH_0)
         IN  IF step[2] # 0 THEN Err(overflow)
             ELSE ParseDigits(str, i + 1, step[1], overflow)

TooLarge == "number too large to fit in target type"
TooSmall == "number too small to fit in target type"

\* str.parse::<uN>() with N = 8 * width: Ok(big-endian bytes) or the error
ParseUnsigned(str, width) ==
    LET zero == [i \in 1..width |-> 0]
    IN  IF str = <<>> THEN Err("cannot parse integer from empty string")
        ELSE IF Len(str) = 1 /\ str[1] \in {CH_PLUS, CH_MINUS}
        THEN Err("invalid digit found in string")
        ELSE IF str[1] = CH_PLUS THEN ParseDigits(str, 2, zero, TooLarge)
        ELSE ParseDigits(str, 1, zero, TooLarge)

\* str.parse::<iN>(): Ok(big-endian two's complement bytes) or the error
ParseSigned(str, width) ==
    LET zero == [i \in 1..width |-> 0]
    IN  IF str = <<>> THEN Err("cannot parse integer from empty string")
        ELSE IF Len(str) = 1 /\ str[1] \in {CH_PLUS, CH_MINUS}
        THEN Err("invalid digit found in string")
        ELSE IF str[1] = CH_MINUS
        THEN LET mag == ParseDigits(str, 2, zero, TooSmall)
             IN  IF mag.err # "none" THEN mag
                 ELSE IF mag.val[1] < 128 \/ mag.val = [zero EXCEPT ![1] = 128]
                 THEN Done(Negate(mag.val))
                 ELSE Err(TooSmall)
        ELSE LET mag == ParseDigits(str, IF str[1] = CH_PLUS THEN 2 ELSE 1,
                                    zero, TooLarge)
             IN  IF mag.err # "none" THEN mag
                 ELSE IF mag.val[1] < 128 THEN mag
                 ELSE Err(TooLarge)

\* the number of bytes of the UTF-8 sequence a lead byte starts, 0 if none
Utf8Width(lead) ==
    IF lead < 128 THEN 1
    ELSE IF lead >= 194 /\ lead <= 223 THEN 2
    ELSE IF lead >= 224 /\ lead <= 239 THEN 3
    ELSE IF lead >= 240 /\ lead <= 244 THEN 4
    ELSE 0

IsContinuation(byte) == byte >= 128 /\ byte <= 191

\* the scalar value of the UTF-8 sequence input[i .. i + n - 1], -1 if the
\* sequence is cut short, overlong, a surrogate or past U+10FFFF
Utf8Scalar(input, i, n) ==
    IF i + n - 1 > Len(input) \/ \E k \in 1..(n - 1) : ~IsContinuation(input[i + k])
    THEN -1
    ELSE IF n = 1 THEN input[i]
    ELSE IF n = 2 THEN (input[i] - 192) * 64 + (input[i + 1] - 128)
    ELSE IF n = 3
    THEN LET ch == (input[i] - 224) * 4096 + (input[i + 1] - 128) * 64
                   + (input[i + 2] - 128)
         IN  IF ch < 2048 \/ (ch >= 55296 /\ ch <= 57343) THEN -1 ELSE ch
    ELSE LET ch == (input[i] - 240) * 262144 + (input[i + 1] - 128) * 4096
                   + (input[i + 2] - 128) * 64 + (input[i + 3] - 128)
         IN  IF ch < 65536 \/ ch > 1114111 THEN -1 ELSE ch

\* std::str::from_utf8(input) followed by chars(): the chars or the error
RECURSIVE from_utf8(_, _, _)
from_utf8(input, i, str) ==
    IF i > Len(input) THEN Done(str)
    ELSE LET n == Utf8Width(input[i])
             ch == IF n = 0 THEN -1 ELSE Utf8Scalar(input, i, n)
         IN  IF ch < 0 THEN Err("invalid utf-8 sequence")
             ELSE from_utf8(input, i + n, Append(str, ch))

\* ch.encode_utf8(&mut buf): the bytes of one char
encode_utf8(ch) ==
    IF ch < 128 THEN <<ch>>
    ELSE IF ch < 2048 THEN <<192 + (ch \div 64), 128 + (ch % 64)>>
    ELSE IF ch < 65536
    THEN <<224 + (ch \div 4096), 128 + ((ch \div 64) % 64), 128 + (ch % 64)>>
    ELSE <<240 + (ch \div 262144), 128 + ((ch \div 4096) % 64),
           128 + ((ch \div 64) % 64), 128 + (ch % 64)>>

\* the value of a hex digit, -1 for any other char
HexValue(ch) ==
    IF ch >= CH_LOWER_A /\ ch <= CH_LOWER_F THEN ch - CH_LOWER_A + 10
    ELSE IF ch >= CH_UPPER_A /\ ch <= CH_UPPER_F THEN ch - CH_UPPER_A + 10
    ELSE IF ch >= CH_0 /\ ch <= CH_9 THEN ch - CH_0
    ELSE -1

IllegalByte == "illegal byte in hex string"

\* the loop of the Binary arm of parse, from input[i] on
RECURSIVE ParseBinary(_, _, _)
ParseBinary(input, i, data) ==
    IF i > Len(input) THEN Done(data)
    ELSE LET hi == HexValue(input[i])
         IN  IF hi < 0 THEN Err(IllegalByte)
             ELSE IF i + 1 > Len(input) THEN Done(Append(data, hi))
             ELSE LET lo == HexValue(input[i + 1])
                      byte == ((hi * 16) % 256) + lo
                  IN  IF lo < 0 THEN Err(IllegalByte)
                      ELSE IF i + 2 > Len(input) THEN Done(Append(data, byte))
                      ELSE IF input[i + 2] = CH_SPACE
                      THEN ParseBinary(input, i + 3, Append(data, byte))
                      ELSE Err(IllegalByte)

RECURSIVE ParseString(_, _)
ParseString(input, i) ==
    IF i > Len(input) THEN <<>>
    ELSE encode_utf8(input[i]) \o ParseString(input, i + 1)

\* SearchMode::parse(&self, input: &[char]) -> Result<Vec<u8>>
parse(mode, input) ==
    IF mode.kind = "String" THEN Done(ParseString(input, 1))
    ELSE IF mode.kind = "Binary" THEN ParseBinary(input, 1, <<>>)
    ELSE IF input = <<>> THEN Done([i \in 1..mode.size |-> 0])
    ELSE LET value == IF mode.sign = "Unsigned" THEN ParseUnsigned(input, mode.size)
                      ELSE ParseSigned(input, mode.size)
         IN  IF value.err # "none" THEN value
             ELSE Done(to_bytes(mode.endian, value.val))

\* one digit of {:02X}
HexChar(n) == IF n < 10 THEN CH_0 + n ELSE CH_UPPER_A + n - 10

RECURSIVE StringifyBinary(_, _)
StringifyBinary(input, i) ==
    IF i > Len(input) THEN <<>>
    ELSE <<HexChar(input[i] \div 16), HexChar(input[i] % 16), CH_SPACE>>
         \o StringifyBinary(input, i + 1)

\* SearchMode::stringify(&self, input: &[u8]) -> Result<String>
stringify(mode, input) ==
    IF mode.kind = "Binary" THEN Done(StringifyBinary(input, 1))
    ELSE IF mode.kind = "String" THEN from_utf8(input, 1, <<>>)
    ELSE IF input = <<>> THEN Done(<<CH_0>>)
    ELSE IF Len(input) < mode.size THEN Err("not enough bytes")
    ELSE LET value == from_bytes(mode.endian, SubSeq(input, 1, mode.size))
         IN  Done(IF mode.sign = "Unsigned" THEN FormatUnsigned(value)
                  ELSE FormatSigned(value))

\* bytes of the integers given to stringify: zero, the sign bit, all ones
IntBytes == {0, 128, 255}

\* bytes of the strings given to stringify: ASCII, a two-byte UTF-8 sequence
\* (195 169), and bytes that are no UTF-8
CodecBytes == {0, 65, 128, 169, 195, 255}

\* chars typed into the widget: '4', 'a', 'F', ' ', 'g', '-'
TypedChars == {52, 97, 70, 32, 103, 45}

BoundedSeq(S, n) == UNION { [1..k -> S] : k \in 0..n }

\* the byte strings set_value is called with: up to one byte more than the
\* width in an Integer mode
ByteInputs(mode) ==
    IF mode.kind = "Integer" THEN BoundedSeq(IntBytes, mode.size + 1)
    ELSE BoundedSeq(CodecBytes, MaxLen)

hox_vars == <<status, mem, win_rows, win_cols, bytes_per_row, view_size, view_offset,
              cursor, selection_start, selection_end, selecting, need_redraw,
              view_mask, view_mask_valid, error, search_data, focused, help_shown>>

\* a search widget in any mode, either about to be given a value or with a
\* text typed into it; the editor behind it stays as constructed
InitCodec ==
    /\ status = "init"
    /\ mem = <<>>
    /\ win_rows = 0
    /\ win_cols = 0
    /\ bytes_per_row = 0
    /\ view_size = 0
    /\ view_offset = 0
    /\ cursor = 0
    /\ selection_start = 0
    /\ selection_end = 0
    /\ selecting = FALSE
    /\ need_redraw = TRUE
    /\ view_mask = <<>>
    /\ view_mask_valid = FALSE
    /\ error = "none"
    /\ search_data = <<>>
    /\ focused = [w \in Widgets |-> FALSE]
    /\ help_shown = FALSE
    /\ widget_mode \in SearchModes
    /\ returned = Done(<<>>)
    /\ widget_cursor = 0
    /\ widget_view_offset = 0
    /\ prev_mode = widget_mode
    /\ pressed = 0
    /\ help_box = TextBoxNew
    /\ \/ /\ last = "new"
          /\ given \in ByteInputs(widget_mode)
          /\ widget_buf = <<>>
       \/ /\ last = "typed"
          /\ given = <<>>
          /\ widget_buf \in BoundedSeq(TypedChars, MaxLen)

\* SearchWidget::set_value(value): self.buf = self.mode.stringify(&value)?
SetValue ==
    /\ last = "new"
    /\ returned' = stringify(widget_mode, given)
    /\ widget_buf' = IF returned'.err = "none" THEN returned'.val ELSE widget_buf
    /\ last' = "set_value"
    /\ widget_cursor' = Len(widget_buf')
    /\ UNCHANGED <<hox_vars, widget_mode, given, widget_view_offset, prev_mode,
                   pressed, help_box>>

\* SearchWidget::value() on a typed text: self.mode.parse(&self.buf)
Value ==
    /\ last = "typed"
    /\ returned' = parse(widget_mode, widget_buf)
    /\ last' = "value"
    /\ UNCHANGED <<hox_vars, widget_mode, widget_buf, given, widget_cursor,
                   widget_view_offset, prev_mode, pressed, help_box>>

\* SearchWidget::value() on the text set_value has left
ValueAfterSet ==
    /\ last = "set_value"
    /\ returned.err = "none"
    /\ returned' = parse(widget_mode, widget_buf)
    /\ last' = "set_value;value"
    /\ UNCHANGED <<hox_vars, widget_mode, widget_buf, given, widget_cursor,
                   widget_view_offset, prev_mode, pressed, help_box>>

NextCodec ==
    \/ SetValue
    \/ Value
    \/ ValueAfterSet

SpecCodec == InitCodec /\ [][NextCodec]_vars

----------------------------------------------------------------------------
(* The search widget: SearchWidget::set_search_mode and ::handle.  The     *)
(* widget is a record like the editor; result is the WidgetResult of the   *)
(* last handle call and value the bytes of WidgetResult::Value.            *)

\* the length of SEARCH_LABEL
SearchLabelLen == 8

\* search_widget.size as Hox::resize sets it from the window's columns
WidgetSize(cols) == IF cols > SearchLabelLen THEN cols - SearchLabelLen ELSE 0

WSelf ==
    [mode |-> widget_mode, buf |-> widget_buf, cursor |-> widget_cursor,
     view_offset |-> widget_view_offset, focused |-> focused["search_widget"],
     size |-> WidgetSize(win_cols), status |-> status, result |-> "Ignore",
     value |-> <<>>]

WCommit(w) ==
    /\ widget_mode' = w.mode
    /\ widget_buf' = w.buf
    /\ widget_cursor' = w.cursor
    /\ widget_view_offset' = w.view_offset
    /\ focused' = [focused EXCEPT !["search_widget"] = w.focused]
    /\ status' = w.status
    /\ UNCHANGED <<mem, win_rows, win_cols, bytes_per_row, view_size, view_offset,
                   cursor, selection_start, selection_end, selecting, need_redraw,
                   view_mask, view_mask_valid, error, search_data, help_shown,
                   help_box>>

WPanic(w) == [w EXCEPT !.status = "panicked"]

Answering(w, res) == [w EXCEPT !.result = res]

StringMode == [kind |-> "String", size |-> I8, sign |-> "Unsigned", endian |-> "Little"]
BinaryMode == [kind |-> "Binary", size |-> I8, sign |-> "Unsigned", endian |-> "Little"]
Integer(int_size, sign, endian) ==
    [kind |-> "Integer", size |-> int_size, sign |-> sign, endian |-> endian]

\* IntSize::next
NextIntSize(int_size) ==
    CASE int_size = I64 -> I32
      [] int_size = I32 -> I16
      [] int_size = I16 -> I8
      [] int_size = I8 -> I64

\* Sign::next
NextSign(sign) == IF sign = "Signed" THEN "Unsigned" ELSE "Signed"

next_major(mode) ==
    CASE mode.kind = "String" -> BinaryMode
      [] mode.kind = "Binary" -> Integer(I64, "Signed", "Little")
      [] mode.kind = "Integer" -> StringMode

prev_major(mode) ==
    CASE mode.kind = "String" -> Integer(I64, "Signed", "Little")
      [] mode.kind = "Binary" -> StringMode
      [] mode.kind = "Integer" -> BinaryMode

next_size(mode) ==
    IF mode.kind = "Integer" THEN [mode EXCEPT !.size = NextIntSize(@)] ELSE mode

next_sign(mode) ==
    IF mode.kind = "Integer" THEN [mode EXCEPT !.sign = NextSign(@)] ELSE mode

next_endian(mode) ==
    IF mode.kind = "Integer"
    THEN [mode EXCEPT !.endian = IF @ = "Little" THEN "Big" ELSE "Little"]
    ELSE mode

\* SearchWidget::adjust_view
widget_adjust_view(w) ==
    IF w.size <= 16 THEN [w EXCEPT !.view_offset = 0]
    ELSE IF w.cursor > w.view_offset + (w.size - 16)
    THEN [w EXCEPT !.view_offset = w.cursor - (w.size - 16)]
    ELSE w

\* a 64-bit value clamped to the range of the target type
CastSaturating(num, to_size, to_sign) ==
    LET low == SubSeq(num, 8 - to_size + 1, 8)
        fits(fill) == \A i \in 1..(8 - to_size) : num[i] = fill
    IN  IF to_sign = "Unsigned"
        THEN IF fits(0) THEN FormatUnsigned(low)
             ELSE FormatUnsigned([i \in 1..to_size |-> 255])
        ELSE IF num[1] < 128
        THEN IF fits(0) /\ low[1] < 128 THEN FormatSigned(low)
             ELSE FormatSigned([i \in 1..to_size |-> IF i = 1 THEN 127 ELSE 255])
        ELSE IF fits(255) /\ low[1] >= 128 THEN FormatSigned(low)
             ELSE FormatSigned([i \in 1..to_size |-> IF i = 1 THEN 128 ELSE 0])

\* a cast that gives an unsigned target the magnitude of a negative value
CastMagnitude(num, to_size, to_sign) ==
    LET low == SubSeq(num, 8 - to_size + 1, 8)
    IN  IF to_sign = "Unsigned"
        THEN FormatUnsigned(IF low[1] >= 128 THEN Negate(low) ELSE low)
        ELSE FormatSigned(low)

\* format!("{}", num as iN) / format!("{}", num as uN) of a 64-bit num kept
\* as 8 big-endian bytes: the cast keeps the low bytes
Cast(num, to_size, to_sign) ==
    LET low == SubSeq(num, 8 - to_size + 1, 8)
    IN  IF to_sign = "Unsigned" THEN FormatUnsigned(low) ELSE FormatSigned(low)

RECURSIVE AllPrintable(_, _)
AllPrintable(bytes, i) ==
    i > Len(bytes) \/ (is_printable_ascii(bytes[i]) /\ AllPrintable(bytes, i + 1))

\* every conversion gives up and clears the term
ConvertedBufClearing(w, mode) == <<>>

\* the new buffer of set_search_mode, by target mode and current mode
ConvertedBuf(w, mode) ==
    LET parsed == parse(w.mode, w.buf)
        restrung == stringify(mode, parsed.val)
        signed64 == ParseSigned(w.buf, I64)
        unsigned64 == ParseUnsigned(w.buf, I64)
    IN  CASE mode.kind = "String" ->
               IF w.mode.kind = "Binary" /\ parsed.err = "none"
                  /\ AllPrintable(parsed.val, 1)
               THEN parsed.val
               ELSE w.buf
          [] mode.kind = "Binary" ->
               IF w.mode.kind = "String"
               THEN stringify(mode, ParseString(w.buf, 1)).val
               ELSE IF w.mode.kind = "Binary" THEN w.buf
               ELSE IF parsed.err = "none" /\ restrung.err = "none" THEN restrung.val
               ELSE <<>>
          [] mode.kind = "Integer" ->
               IF w.mode.kind = "Binary"
               THEN IF parsed.err = "none" /\ restrung.err = "none" THEN restrung.val
                    ELSE <<>>
               ELSE IF w.mode.kind = "String"
               THEN IF mode.sign = "Signed"
                    THEN IF signed64.err = "none" THEN FormatSigned(signed64.val)
                         ELSE <<>>
                    ELSE IF unsigned64.err = "none" THEN FormatUnsigned(unsigned64.val)
                    ELSE <<>>
               ELSE IF w.mode.sign = "Signed"
               THEN IF signed64.err = "none"
                    THEN Cast(signed64.val, mode.size, mode.sign)
                    ELSE <<CH_0>>
               ELSE IF unsigned64.err = "none"
               THEN Cast(unsigned64.val, mode.size, mode.sign)
               ELSE <<CH_0>>

\* SearchWidget::set_search_mode(&mut self, mode)
set_search_mode(w, mode) ==
    IF w.mode # mode
    THEN LET buf == ConvertedBuf(w, mode)
         IN  widget_adjust_view([w EXCEPT !.buf = buf, !.mode = mode,
                                          !.cursor = Len(buf), !.view_offset = 0])
    ELSE w

\* SearchWidget::set_value(value) and, with a mode, ::set_mode_and_value:
\* the `?` returns before anything but the mode is assigned
set_mode_and_value(w, mode, value) ==
    LET text == stringify(mode, value)
        w1 == [w EXCEPT !.mode = mode]
    IN  IF text.err # "none" THEN w1
        ELSE widget_adjust_view([w1 EXCEPT !.buf = text.val, !.cursor = Len(text.val),
                                           !.view_offset = 0])

\* Vec::insert(i, ch) and Vec::remove(i), i counted from 0 and in range
InsertAt(buf, i, ch) == SubSeq(buf, 1, i) \o <<ch>> \o SubSeq(buf, i + 1, Len(buf))
RemoveAt(buf, i) == SubSeq(buf, 1, i) \o SubSeq(buf, i + 2, Len(buf))

\* the keys of the search widget that are no chars
WidgetSpecialKeys == {"KeyHome", "KeyEnd", "KeyLeft", "KeyRight", "KeyIC", "KeyDC",
                      "KeyBackspace", "KeyF5", "KeyF6", "KeyF7", "KeyF8", "KeyUp",
                      "KeyPPage"}

\* the chars of the keys that are chars
CharOf(key) ==
    CASE key = "ESCAPE" -> 27
      [] key = "END_OF_TRANSMISSION" -> 4
      [] key = "END_OF_MEDIUM" -> 25
      [] key = "ENTER" -> 10
      [] key = "CANCEL" -> 24
      [] key = "4" -> 52
      [] key = "a" -> 97
      [] key = "F" -> 70
      [] key = "q" -> 113
      [] key = "/" -> 47
      [] key = "-" -> CH_MINUS

WidgetCharKeys == {"ESCAPE", "END_OF_MEDIUM", "ENTER", "CANCEL",
                   "4", "a", "F", "q", "/", "-"}

WidgetKeys == WidgetSpecialKeys \cup WidgetCharKeys

\* the Integer arm of Input::Character(ch)
IntegerChar(w, ch) ==
    IF ch = 113 THEN Answering([w EXCEPT !.focused = FALSE], "Redraw")
    ELSE IF w.cursor > Len(w.buf) THEN WPanic(w)
    ELSE LET inserted == [w EXCEPT !.buf = InsertAt(w.buf, w.cursor, ch)]
             typed == [inserted EXCEPT !.cursor = w.cursor + 1]
         IN  IF w.buf = <<>> /\ (ch = CH_PLUS \/ (w.mode.sign = "Signed" /\ ch = CH_MINUS))
             THEN Answering(widget_adjust_view(typed), "Redraw")
             ELSE IF parse(w.mode, inserted.buf).err = "none"
             THEN Answering(widget_adjust_view(typed), "Redraw")
             ELSE Answering(w, "PropagateEvent")

\* the Binary arm of Input::Character(ch)
BinaryChar(w, ch) ==
    LET upper == IF ch >= CH_LOWER_A /\ ch <= CH_LOWER_F
                 THEN ch - CH_LOWER_A + CH_UPPER_A ELSE ch
        n == Len(w.buf)
        c == w.cursor
    IN  IF ch = 113 THEN Answering([w EXCEPT !.focused = FALSE], "Redraw")
        ELSE IF HexValue(ch) < 0 THEN Answering(w, "PropagateEvent")
        ELSE IF c >= n
        THEN Answering(widget_adjust_view(
                 [w EXCEPT !.buf = w.buf \o <<upper, CH_0>>, !.cursor = c + 1]), "Redraw")
        ELSE IF c % 3 = 0
        THEN Answering(widget_adjust_view(
                 [w EXCEPT !.buf = [w.buf EXCEPT ![c + 1] = upper], !.cursor = c + 1]),
                 "Redraw")
        ELSE IF c % 3 = 1
        THEN LET set == [w.buf EXCEPT ![c + 1] = upper]
             IN  Answering(widget_adjust_view(
                     [w EXCEPT !.buf = IF c + 1 = n THEN Append(set, CH_SPACE) ELSE set,
                               !.cursor = c + 2]), "Redraw")
        ELSE WPanic(w)   \* panic!("invalid state")

\* Input::Character(ch) for a ch that no earlier arm takes
WidgetChar(w, ch) ==
    IF ch <= 31 \/ ch = 127 THEN Answering(w, "PropagateEvent")
    ELSE IF w.mode.kind = "Integer" THEN IntegerChar(w, ch)
    ELSE IF w.mode.kind = "Binary" THEN BinaryChar(w, ch)
    ELSE IF w.cursor > Len(w.buf) THEN WPanic(w)
    ELSE Answering(widget_adjust_view(
             [w EXCEPT !.buf = InsertAt(w.buf, w.cursor, ch), !.cursor = w.cursor + 1]),
             "Redraw")

\* buf.remove(cursor); buf.remove(cursor); if cursor < buf.len() { buf.remove(cursor) }
\* of the Binary arms of KeyDC and KeyBackspace, with the cursor at c
RemoveByte(w, c) ==
    IF c + 1 >= Len(w.buf) THEN WPanic(w)
    ELSE LET two == RemoveAt(RemoveAt(w.buf, c), c)
         IN  [w EXCEPT !.cursor = c,
                       !.buf = IF c < Len(two) THEN RemoveAt(two, c) ELSE two]

LowerViewOffset(w) ==
    IF w.status # "panicked" /\ w.cursor < w.view_offset
    THEN [w EXCEPT !.view_offset = w.cursor] ELSE w

\* SearchWidget::handle(&mut self, input)
widget_handle(w, key) ==
    LET n == Len(w.buf)
        c == w.cursor
    IN  IF ~w.focused THEN Answering(w, "PropagateEvent")
        ELSE CASE key = "KeyHome" ->
               Answering([w EXCEPT !.cursor = 0, !.view_offset = 0], "Redraw")
          [] key = "KeyEnd" ->
               Answering(widget_adjust_view([w EXCEPT !.cursor = n]), "Redraw")
          [] key = "KeyLeft" ->
               IF c > 0
               THEN IF w.mode.kind = "Binary"
                       /\ (c - 1 >= n \/ (c = 1 /\ w.buf[1] = CH_SPACE))
                    THEN WPanic(w)   \* index out of range, or 0 - 1
                    ELSE Answering(LowerViewOffset(
                             [w EXCEPT !.cursor =
                                 IF w.mode.kind = "Binary" /\ w.buf[c] = CH_SPACE
                                 THEN c - 2 ELSE c - 1]), "Redraw")
               ELSE Answering(w, "Ignore")
          [] key = "KeyRight" ->
               IF c < n
               THEN Answering(widget_adjust_view(
                        [w EXCEPT !.cursor =
                            IF w.mode.kind = "Binary" /\ c + 1 < n
                               /\ w.buf[c + 2] = CH_SPACE
                            THEN c + 2 ELSE c + 1]), "Redraw")
               ELSE Answering(w, "Ignore")
          [] key \in {"ESCAPE", "END_OF_TRANSMISSION"} ->
               Answering([w EXCEPT !.focused = FALSE], "Redraw")
          [] key \in {"ENTER", "KeyF3"} ->
               IF w.buf # <<>> /\ parse(w.mode, w.buf).err = "none"
               THEN [w EXCEPT !.result = "Value", !.value = parse(w.mode, w.buf).val]
               ELSE Answering(w, "Ignore")
          [] key = "END_OF_MEDIUM" ->
               Answering(set_search_mode(w, prev_major(w.mode)), "Redraw")
          [] key \in WidgetCharKeys \ {"ESCAPE", "END_OF_TRANSMISSION", "ENTER",
                                        "END_OF_MEDIUM"} ->
               WidgetChar(w, CharOf(key))
          [] key = "KeyIC" ->
               IF w.mode.kind = "Binary"
               THEN IF c % 3 = 2 \/ c - (c % 3) > n THEN WPanic(w)
                    ELSE LET at == c - (c % 3)
                         IN  Answering(LowerViewOffset(
                                 [w EXCEPT !.cursor = at,
                                           !.buf = SubSeq(w.buf, 1, at)
                                                   \o <<CH_0, CH_0, CH_SPACE>>
                                                   \o SubSeq(w.buf, at + 1, n)]),
                                 "Redraw")
               ELSE Answering(w, "Ignore")
          [] key = "KeyDC" ->
               IF c < n
               THEN IF w.mode.kind # "Binary"
                    THEN Answering([w EXCEPT !.buf = RemoveAt(w.buf, c)], "Redraw")
                    ELSE IF c % 3 = 2 THEN WPanic(w)
                    ELSE Answering(RemoveByte(w, c - (c % 3)), "Redraw")
               ELSE Answering(w, "Ignore")
          [] key = "KeyBackspace" ->
               IF c > 0
               THEN IF w.mode.kind # "Binary"
                    THEN IF c - 1 >= n THEN WPanic(w)
                         ELSE Answering(LowerViewOffset(
                                  [w EXCEPT !.buf = RemoveAt(w.buf, c - 1),
                                            !.cursor = c - 1]), "Redraw")
                    ELSE IF c % 3 = 2 THEN WPanic(w)
                    ELSE Answering(LowerViewOffset(
                             RemoveByte(w, IF c % 3 = 0 THEN c - 3 ELSE c - 1)), "Redraw")
               ELSE Answering(w, "Ignore")
          [] key = "KeyF5" -> Answering(set_search_mode(w, next_major(w.mode)), "Redraw")
          [] key = "KeyF6" -> Answering(set_search_mode(w, next_sign(w.mode)), "Redraw")
          [] key = "KeyF7" -> Answering(set_search_mode(w, next_size(w.mode)), "Redraw")
          [] key = "KeyF8" -> Answering(set_search_mode(w, next_endian(w.mode)), "Redraw")
          [] key \in {"KeyUp", "KeyDown"} -> Answering(w, "Ignore")
          [] OTHER -> Answering(w, "PropagateEvent")

----------------------------------------------------------------------------
(* The search widget under the keys it handles.  Of the editor only what   *)
(* reaches the widget is run: the arms of Hox::handle that give it a       *)
(* value, focus it or blur it.  The editor's own fields stay as they are.  *)

\* the number of keys pressed in one run of the search widget
MaxKeys == 4

\* longest search term an editing key of the Binary mode may make: a key
\* that would leave a longer term is not pressed unless it shortens the term
MaxEditLen == 6

\* window widths: a search widget of 5 columns (no room for the term) and of
\* 19 columns (3 columns of term)
WidgetCols == {13, 27}

NewHox ==
    [status |-> "running", win_rows |-> 0, win_cols |-> 0, bytes_per_row |-> 0,
     view_size |-> 0, view_offset |-> 0, cursor |-> 0, selection_start |-> 0,
     selection_end |-> 0, selecting |-> FALSE, need_redraw |-> TRUE,
     view_mask |-> <<>>, view_mask_valid |-> FALSE, error |-> "none",
     search_data |-> <<>>, focused |-> [w \in Widgets |-> FALSE],
     help_shown |-> FALSE, last |-> "new"]

\* the editor is in the state h
HoxIs(h) ==
    /\ status = h.status
    /\ win_rows = h.win_rows
    /\ win_cols = h.win_cols
    /\ bytes_per_row = h.bytes_per_row
    /\ view_size = h.view_size
    /\ view_offset = h.view_offset
    /\ cursor = h.cursor
    /\ selection_start = h.selection_start
    /\ selection_end = h.selection_end
    /\ selecting = h.selecting
    /\ need_redraw = h.need_redraw
    /\ view_mask = h.view_mask
    /\ view_mask_valid = h.view_mask_valid
    /\ error = h.error
    /\ search_data = h.search_data
    /\ focused = h.focused
    /\ help_shown = h.help_shown
    /\ last = h.last

\* <<selection_start, selection_end>>: no selection, the printable byte 41,
\* the byte 00
WidgetSelections == { <<0, 0>>, <<0, 1>>, <<2, 3>> }

\* a new widget in an editor that has been sized, with a selection
InitWidget ==
    /\ mem \in { file \in Files : Len(file) = MaxSize }
    /\ \E cols \in WidgetCols, sel \in WidgetSelections :
         \E h \in resize(NewHox, 9, cols) :
            HoxIs([h EXCEPT !.selection_start = sel[1], !.selection_end = sel[2]])
    /\ widget_mode = StringMode
    /\ widget_buf = <<>>
    /\ widget_cursor = 0
    /\ widget_view_offset = 0
    /\ prev_mode = StringMode
    /\ pressed = 0
    /\ help_box = TextBoxNew
    /\ given = <<>>
    /\ returned = Done(<<>>)

\* what Hox::handle does to the search widget for a key that reaches it
HoxSide(w, key) ==
    IF key \in {"f", "/", "KeyF3"}
    THEN IF selection_end > selection_start
         THEN LET search_data_ == Slice(mem, selection_start, selection_end)
              IN  [set_mode_and_value(w, IF AllPrintable(search_data_, 1)
                                         THEN StringMode ELSE BinaryMode,
                                      search_data_)
                   EXCEPT !.focused = TRUE]
         ELSE [set_mode_and_value(w, w.mode, <<>>) EXCEPT !.focused = TRUE]
    ELSE IF key \in {"o", "+", "-", "F"} THEN [w EXCEPT !.focused = FALSE]
    ELSE w

\* Hox::run with the search widget focused: search_widget.handle(input), and
\* self.handle(input) for WidgetResult::PropagateEvent
WidgetKeyEvent(key) ==
    /\ status = "running"
    /\ focused["search_widget"]
    /\ \E w \in {widget_handle(WSelf, key)} :
         \E w2 \in {IF w.status = "running" /\ w.result = "PropagateEvent"
                     THEN HoxSide(w, key) ELSE w} : WCommit(w2)
    /\ last' = key
    /\ UNCHANGED <<prev_mode, given, returned>>

WidgetEvent ==
    /\ pressed < MaxKeys
    /\ pressed' = pressed + 1
    /\ \E key \in WidgetKeys : WidgetKeyEvent(key)

\* Hox::run with no widget focused: self.handle(input)
HoxKeyEvent ==
    /\ status = "running"
    /\ ~focused["search_widget"]
    /\ pressed < MaxKeys
    /\ pressed' = pressed + 1
    /\ \E key \in WidgetKeys :
         /\ \E w \in {HoxSide(WSelf, key)} : WCommit(w)
         /\ last' = key
    /\ UNCHANGED <<prev_mode, given, returned>>

NextWidget ==
    \/ WidgetEvent
    \/ HoxKeyEvent

SpecWidget == InitWidget /\ [][NextWidget]_vars

\* view_offset as set_value leaves it: 0 and adjust_view, cursor at the end
ViewOffsetAtEnd ==
    widget_adjust_view([cursor |-> widget_cursor, view_offset |-> 0,
                        size |-> WidgetSize(win_cols)]).view_offset

\* the editing keys of the Binary mode
EditKeys == {"4", "a", "KeyLeft", "KeyRight", "KeyHome", "KeyEnd", "KeyIC", "KeyDC",
             "KeyBackspace"}

\* the window width the editing is done in: a search widget of 5 columns
EditCols == 13

\* bytes of the terms the editing starts from
EditBytes == {65, 255}

\* the focused widget in Binary mode, empty or as set_value leaves it
InitBinaryEdit ==
    /\ mem = <<>>
    /\ \E h \in resize(NewHox, 9, EditCols) :
            HoxIs([h EXCEPT !.focused["search_widget"] = TRUE])
    /\ widget_mode = BinaryMode
    /\ given \in BoundedSeq(EditBytes, MaxEditLen \div 3)
    /\ returned = stringify(BinaryMode, given)
    /\ widget_buf = returned.val
    /\ widget_cursor = Len(widget_buf)
    /\ widget_view_offset = ViewOffsetAtEnd
    /\ prev_mode = BinaryMode
    /\ pressed = 0
    /\ help_box = TextBoxNew

BinaryEditEvent ==
    /\ \E key \in EditKeys : WidgetKeyEvent(key)
    /\ Len(widget_buf') <= Max(MaxEditLen, Len(widget_buf))
    /\ UNCHANGED pressed

NextBinaryEdit == BinaryEditEvent

SpecBinaryEdit == InitBinaryEdit /\ [][NextBinaryEdit]_vars

----------------------------------------------------------------------------
(* Calls of set_search_mode on a widget whose term is a text stringify     *)
(* makes or a short typed text, and the call back to the mode it had.      *)

\* values kept big-endian: any of four top bytes over low bytes 00 or FF
SwitchValues(width) ==
    { <<top>> \o low : top \in {0, 127, 128, 255}, low \in [1..(width - 1) -> {0, 255}] }

\* longest typed text and longest Binary or String value of these calls
MaxSwitchLen == 2

\* the texts the term can hold in a mode
ModeTexts(mode) ==
    BoundedSeq(TypedChars, MaxSwitchLen)
    \cup IF mode.kind = "Integer"
         THEN { stringify(mode, to_bytes(mode.endian, v)).val :
                    v \in SwitchValues(mode.size) }
         ELSE IF mode.kind = "Binary"
         THEN { stringify(mode, v).val :
                    v \in BoundedSeq(IntBytes, MaxSwitchLen)
                          \cup UNION { SwitchValues(width) : width \in IntSizes } }
         ELSE { stringify(mode, v).val : v \in BoundedSeq({0, 49, 52}, MaxSwitchLen) }

\* a widget in any mode with a term, after a call of value()
InitModes ==
    /\ mem = <<>>
    /\ \E cols \in WidgetCols :
         \E h \in resize(NewHox, 9, cols) :
            HoxIs([h EXCEPT !.focused["search_widget"] = TRUE, !.last = "value"])
    /\ widget_mode \in SearchModes
    /\ widget_buf \in ModeTexts(widget_mode)
    /\ widget_cursor = Len(widget_buf)
    /\ widget_view_offset = ViewOffsetAtEnd
    /\ prev_mode = widget_mode
    /\ pressed = 0
    /\ help_box = TextBoxNew
    /\ given = <<>>
    /\ returned = parse(widget_mode, widget_buf)

\* set_search_mode(mode) with any mode
SetSearchModeCall ==
    /\ last = "value"
    /\ \E mode \in SearchModes :
         \E w \in {set_search_mode(WSelf, mode)} : WCommit(w)
    /\ prev_mode' = widget_mode
    /\ last' = "set_search_mode"
    /\ UNCHANGED <<given, returned, pressed>>

\* set_search_mode(mode) with the mode the widget had before the last call
SetSearchModeBack ==
    /\ last = "set_search_mode"
    /\ \E w \in {set_search_mode(WSelf, prev_mode)} : WCommit(w)
    /\ prev_mode' = widget_mode
    /\ last' = "set_search_mode;set_search_mode"
    /\ UNCHANGED <<given, returned, pressed>>

NextModes ==
    \/ SetSearchModeCall
    \/ SetSearchModeBack

SpecModes == InitModes /\ [][NextModes]_vars

----------------------------------------------------------------------------
(* The help box in the run loop *)

\* terminal sizes <<rows, columns>> the window takes while the help is used:
\* too narrow for any text, narrow enough to wrap every long line, wide enough
\* for every line
HelpWinSizes == { <<rows, cols>> : rows \in {6, 8}, cols \in {6, 20, 60} }

\* keys pressed while the help is used
HelpKeys == {"h", "KeyHome", "KeyEnd", "KeyUp", "KeyDown", "KeyNPage", "KeyPPage",
             "CANCEL", "DEVICE_CONTROL3", "KeyResize", "q", "a"}

\* a one-byte file behind a help box as constructed
InitHelp ==
    /\ status = "init"
    /\ mem = SubSeq(BaseFile, 1, 1)
    /\ HoxIs([NewHox EXCEPT !.status = "init"])
    /\ widget_mode = [kind |-> "String", size |-> 1, sign |-> "Unsigned",
                      endian |-> "Little"]
    /\ widget_buf = <<>>
    /\ given = <<>>
    /\ returned = [err |-> "none", val |-> <<>>]
    /\ widget_cursor = 0
    /\ widget_view_offset = 0
    /\ prev_mode = widget_mode
    /\ pressed = 0
    /\ help_box = TextBoxNew

\* self.resize() at the start of run: the help is hidden, the box is not resized
HelpStart ==
    /\ status = "init"
    /\ \E win \in HelpWinSizes :
         \E r \in WithLast(resize([Self EXCEPT !.status = "running"], win[1], win[2]),
                           "resize") :
            Commit(r)

\* Hox::redraw, which ends with help_box.redraw if the help is shown
HelpRedraw ==
    /\ status = "running"
    /\ need_redraw
    /\ \E r \in {redraw(Self)} :
         Commit(IF Ok(r) /\ help_shown /\ text_box_redraw_panics(help_box)
                THEN [Panic(Self) EXCEPT !.last = "redraw"] ELSE r)

\* a key read while the help is hidden goes to Hox::handle: 'h' resizes the
\* box to the window and shows it, KeyResize resizes the editor only
HiddenHelpEvent ==
    /\ Reading
    /\ ~help_shown
    /\ \E key \in {"h", "KeyResize"}, win \in HelpWinSizes :
         /\ key = "KeyResize" \/ win = <<win_rows, win_cols>>
         /\ \E r \in handle(Self, key, win[1], win[2]) :
              CommitWith(r, IF key = "h" /\ Ok(r)
                            THEN text_box_resize(help_box, win_rows, win_cols)
                            ELSE help_box)

\* a key read while the help is shown: 'h' hides it, any other key goes to
\* help_box.handle, and a propagated KeyResize to Hox::handle, whose resize
\* resizes the box as well
ShownHelpEvent ==
    /\ Reading
    /\ help_shown
    /\ \E key \in HelpKeys, win \in HelpWinSizes :
         /\ key = "KeyResize" \/ win = <<win_rows, win_cols>>
         /\ IF key = "h"
            THEN Commit([Self EXCEPT !.help_shown = FALSE, !.need_redraw = TRUE,
                                     !.last = "h"])
            ELSE \E a \in {text_box_handle(help_box, key)} :
                   CASE a.result = "Redraw" ->
                          CommitWith([Self EXCEPT !.need_redraw = TRUE, !.last = key],
                                     a.box)
                     [] a.result = "Ignore" ->
                          CommitWith([Self EXCEPT !.last = key], a.box)
                     [] a.result = "Quit" ->
                          CommitWith([Self EXCEPT !.help_shown = FALSE,
                                                  !.need_redraw = TRUE, !.last = key],
                                     a.box)
                     [] a.result = "PropagateEvent" ->
                          \E r \in handle(Self, key, win[1], win[2]) :
                             CommitWith(r, text_box_resize(a.box, win[1], win[2]))

NextHelp ==
    \/ HelpStart
    \/ HelpRedraw
    \/ HiddenHelpEvent
    \/ ShownHelpEvent

SpecHelp == InitHelp /\ [][NextHelp]_vars

----------------------------------------------------------------------------
(* Claims *)

\* C1: in every state after the initial resize, with a non-empty file and a
\* non-empty viewport, the cursor lies inside the viewport:
\* view_offset <= cursor < view_offset + view_size.
C1_CursorInView ==
    (status = "running" /\ size > 0 /\ view_size > 0)
        => (view_offset <= cursor /\ cursor < view_offset + view_size)

\* the operations that move the cursor through one call of set_cursor
SetCursorOps == {"move", "page_up", "page_down", "goto", "find_next", "find_previous"}

\* the directional rule of the selection, as stated: the selection
\* <<start, end>> after the cursor moves from c to target
RefSelection(c, target, start, end) ==
    IF target > c
    THEN IF c + 1 = end THEN <<start, target + 1>>
         ELSE IF target >= end THEN <<end - 1, target + 1>>
         ELSE IF end <= target THEN <<target, target + 1>>
         ELSE <<target, end>>
    ELSE IF target < c
    THEN IF c = start THEN <<target, end>>
         ELSE IF target < start THEN <<target, start + 1>>
         ELSE <<start, target + 1>>
    ELSE <<start, end>>

\* C2: a step that moves the cursor through set_cursor while selecting = true
\* leaves the selection the directional rule gives for the old cursor, the
\* new cursor and the old selection.
C2_DirectionalRule ==
    [][ (status = "running" /\ status' = "running" /\ selecting
         /\ last' \in SetCursorOps /\ cursor' # cursor)
        => <<selection_start', selection_end'>>
             = RefSelection(cursor, cursor', selection_start, selection_end) ]_vars

\* C2 witness: an offset entry has moved the cursor forward through
\* set_cursor with a selection in progress: the selection starts after
\* offset 0, ends on the cursor and is longer than the one byte 's' selects.
C2_Witness ==
    /\ status = "running" /\ selecting /\ last = "goto"
    /\ selection_start > 0
    /\ selection_end = cursor + 1
    /\ selection_end - selection_start >= 2

\* C3: in every state selection_start <= selection_end, and while selecting
\* = true the selection is non-empty.
C3_SelectionOrdered ==
    /\ selection_start <= selection_end
    /\ selecting => selection_end - selection_start >= 1

\* C3 witness: a selection in progress that backward moves have extended,
\* the cursor on its first byte.
C3_Witness ==
    /\ status = "running" /\ selecting /\ last = "move"
    /\ cursor = selection_start
    /\ selection_end - selection_start >= 2

\* C4: in every state of a non-empty file 0 <= cursor < size.
C4_CursorInFile == size > 0 => (0 <= cursor /\ cursor < size)

\* C4 witness: an offset entry has put the cursor on the last byte of a file
\* shorter than the largest value entered.
C4_Witness ==
    /\ status = "running" /\ last = "goto"
    /\ size >= 2 /\ size <= MaxEntry
    /\ cursor = size - 1

\* the offsets at which needle occurs entirely inside the file
Occurrences(needle) == { o \in 0..(size - 1) : MatchAt(o, needle) }

SetMin(S) == CHOOSE x \in S : \A y \in S : x <= y
SetMax(S) == CHOOSE x \in S : \A y \in S : x >= y

\* the occurrences of needle a find from cursor c looks for
OccurrencesAhead(op, c, needle) ==
    IF op = "find_next"
    THEN { o \in Occurrences(needle) : o > c }
    ELSE { o \in Occurrences(needle) : o < c }

C6_NotFoundIsSafe ==
    [][ (status = "running" /\ last' \in {"find_next", "find_previous"}
         /\ search_data' # <<>>
         /\ OccurrencesAhead(last', cursor, search_data') = {})
        => /\ status' = "running"
           /\ error' = IF last' = "find_next"
                       THEN "Pattern not found searching forward"
                       ELSE "Pattern not found searching backward"
           /\ cursor' = cursor
           /\ selection_start' = selection_start
           /\ selection_end' = selection_end
           /\ view_offset' = view_offset ]_vars

\* a find that ran while a selection was in progress and moved the cursor
FoundWhileSelecting ==
    /\ status = "running" /\ status' = "running"
    /\ selecting
    /\ last' \in {"find_next", "find_previous"}
    /\ cursor' # cursor

\* C7, as stated: a find that succeeds while selecting = true collapses the
\* selection in progress: selecting ends and the range is not stretched to
\* the match (it stays as it was, or is emptied).
C7_FindCollapsesSelection ==
    [][ FoundWhileSelecting
        => /\ ~selecting'
           /\ \/ <<selection_start', selection_end'>> = <<selection_start, selection_end>>
              \/ selection_start' = selection_end' ]_vars

\* C7, as the code has it: a find that succeeds while selecting = true keeps
\* the selection in progress and extends it to the match by the directional
\* rule of set_cursor, so the match offset lies inside the new selection.
C7_FindExtendsSelection ==
    [][ FoundWhileSelecting
        => /\ selecting'
           /\ <<selection_start', selection_end'>>
                = RefSelection(cursor, cursor', selection_start, selection_end)
           /\ selection_start' <= cursor' /\ cursor' < selection_end' ]_vars

\* C7 witness: find_next has moved the cursor onto a match with a selection
\* in progress, which now ends on the match and is longer than one byte.
C7_Witness ==
    /\ status = "running" /\ selecting /\ last = "find_next" /\ error = "none"
    /\ search_data # <<>>
    /\ MatchAt(cursor, search_data)
    /\ selection_end = cursor + 1
    /\ selection_end - selection_start >= 2

\* a redraw that has rebuilt view_mask
MaskBuilt ==
    /\ status = "running" /\ status' = "running"
    /\ last' = "redraw"
    /\ ~view_mask_valid /\ view_mask_valid'

\* the file offset of cell i of the mask
CellOffset(i) == view_offset + i - 1

\* offset o lies inside some occurrence of needle in the file
InOccurrence(o, needle) ==
    /\ needle # <<>>
    /\ \E p \in Occurrences(needle) : p <= o /\ o < p + Len(needle)

\* the needle of the auto highlight: the selected bytes
SelectedBytes == Slice(mem, selection_start, selection_end)

\* C8: after the mask is built, a cell carries the AutoHighlight flag iff its
\* offset lies inside an occurrence of the selected bytes, and the SearchMatch
\* flag iff it lies inside an occurrence of the search pattern; an occurrence
\* wholly outside the viewport marks no cell and an empty needle marks none.
C8_MatchFlagsExact ==
    [][ MaskBuilt
        => \A i \in 1..Len(view_mask') :
              /\ HasBit(view_mask'[i], MASK_HIGHLIGHT)
                    <=> InOccurrence(CellOffset(i), SelectedBytes)
              /\ HasBit(view_mask'[i], MASK_SEARCH)
                    <=> InOccurrence(CellOffset(i), search_data) ]_vars

\* cell i is the last cell of a maximal run of cells carrying flag
EndsRun(m, i, flag) ==
    /\ HasBit(m[i], flag)
    /\ i = Len(m) \/ ~HasBit(m[i + 1], flag)

\* C9: after the mask is built, a cell carries the run-end flag of a pattern
\* class iff it carries the class flag and is the last cell of a maximal
\* contiguous run of cells carrying it: touching or overlapping occurrences
\* form one run with one run-end cell.
C9_RunEndExact ==
    [][ MaskBuilt
        => \A i \in 1..Len(view_mask') :
              /\ HasBit(view_mask'[i], MASK_HIGHLIGHT_END)
                    <=> EndsRun(view_mask', i, MASK_HIGHLIGHT)
              /\ HasBit(view_mask'[i], MASK_SEARCH_END)
                    <=> EndsRun(view_mask', i, MASK_SEARCH) ]_vars

\* C10: after the mask is built, a cell carries Selected iff its offset lies
\* in [selection_start, selection_end), and SelectedRunEnd iff it is the last
\* such cell of the viewport; no other cell carries a selection flag.
C10_SelectionFlagsExact ==
    [][ MaskBuilt
        => \A i \in 1..Len(view_mask') :
              LET o == CellOffset(i)
                  covered == selection_start <= o /\ o < selection_end
              IN  /\ HasBit(view_mask'[i], MASK_SELECTED) <=> covered
                  /\ HasBit(view_mask'[i], MASK_SELECTED_END)
                        <=> (covered /\ (o + 1 = selection_end
                                          \/ i = Len(view_mask'))) ]_vars

\* C10 witness: selection [1,3) drawn over a 4-byte viewport at offset 0:
\* cells 1 and 2 Selected, cell 2 SelectedRunEnd, cells 0 and 3 neither.
C10_Witness ==
    /\ status = "running" /\ last = "redraw" /\ view_mask_valid
    /\ view_offset = 0 /\ selection_start = 1 /\ selection_end = 3
    /\ Len(view_mask) = 4
    /\ ~HasBit(view_mask[1], MASK_SELECTED) /\ ~HasBit(view_mask[1], MASK_SELECTED_END)
    /\ HasBit(view_mask[2], MASK_SELECTED) /\ ~HasBit(view_mask[2], MASK_SELECTED_END)
    /\ HasBit(view_mask[3], MASK_SELECTED) /\ HasBit(view_mask[3], MASK_SELECTED_END)
    /\ ~HasBit(view_mask[4], MASK_SELECTED) /\ ~HasBit(view_mask[4], MASK_SELECTED_END)

\* a redraw that finds the cached mask invalid and rebuilds it, in a window
\* large enough to draw, with the selection inside the file
RebuildAttempt ==
    /\ status = "running" /\ need_redraw /\ ~view_mask_valid
    /\ bytes_per_row > 0 /\ win_rows >= 8
    /\ selection_start <= selection_end /\ selection_end <= size
    /\ last' = "redraw"

\* C11: for every needle length, file size and viewport position the pattern
\* passes of a mask rebuild stay in range: their scan bounds do not underflow
\* and no slice of the file or index of the mask is out of range, so the
\* rebuild does not panic.
C11_PatternPassInRange ==
    [][ RebuildAttempt => status' = "running" ]_vars

\* an input event, handled to its return
EventReturned ==
    /\ status = "running" /\ status' = "running"
    /\ ~need_redraw
    /\ last' # "redraw"

\* C12: an input event that changes view_offset, view_size, the selection
\* range or the search pattern leaves the cached mask invalidated, so that
\* the next redraw rebuilds it.
C12_MaskInvalidated ==
    [][ (EventReturned
         /\ <<view_offset', view_size', selection_start', selection_end', search_data'>>
              # <<view_offset, view_size, selection_start, selection_end, search_data>>)
        => ~view_mask_valid' ]_vars

\* a page key handled to its return in a state with the cursor inside a
\* non-empty viewport
PageReturned ==
    /\ status = "running" /\ status' = "running"
    /\ last' \in {"page_up", "page_down"}
    /\ size > 0 /\ bytes_per_row > 0 /\ view_size > 0
    /\ view_offset <= cursor /\ cursor < view_offset + view_size

\* C13: page_up and page_down move the cursor by the amount they move
\* view_offset, unless that would put the cursor outside [0, size-1]: the
\* view and the cursor are never moved by different amounts.
C13_PageSameDelta ==
    [][ PageReturned
        => LET delta == view_offset' - view_offset
           IN  \/ cursor' - cursor = delta
               \/ cursor + delta < 0
               \/ cursor + delta >= size ]_vars

\* the operations of the navigation keys and of the resize
NavOps == {"move", "page_up", "page_down", "resize"}

\* C14: no navigation input panics in a reachable state (no division by
\* zero, no underflow), whatever the window size, and on an empty file each
\* leaves cursor, selection and view_offset unchanged.
C14_NavigationNeverFails ==
    [][ (status = "running" /\ last' \in NavOps)
        => /\ status' = "running"
           /\ size = 0
                => <<cursor', selection_start', selection_end', view_offset'>>
                     = <<cursor, selection_start, selection_end, view_offset>> ]_vars

\* C15: in every state with bytes_per_row > 0, view_offset is a multiple of
\* bytes_per_row.
C15_ViewOffsetAligned ==
    (status = "running" /\ bytes_per_row > 0) => view_offset % bytes_per_row = 0

\* C16: goto_percent(0) on a non-empty file, from any cursor position, lands
\* the cursor at offset 0 and does not underflow or overflow.
C16_PercentZero ==
    [][ (status = "running" /\ size > 0 /\ last' = "goto_percent_0")
        => (status' = "running" /\ cursor' = 0) ]_vars

\* C17: a goto_percent(100) that returns on a non-empty file, from any cursor
\* position, leaves the cursor at offset size - 1.
C17_PercentHundred ==
    [][ (status = "running" /\ status' = "running" /\ size > 0
         /\ last' = "goto_percent_100")
        => cursor' = size - 1 ]_vars

\* C17 witness: goto_percent(100) has moved the cursor (need_redraw is set by
\* the move) to the last byte of a file of several bytes.
C17_Witness ==
    /\ status = "running" /\ last = "goto_percent_100" /\ need_redraw
    /\ size >= 3
    /\ cursor = size - 1

\* the byte strings the round trip is stated for: exactly the width in an
\* Integer mode, ASCII in String mode, any in Binary mode
RoundTripDomain ==
    IF widget_mode.kind = "Integer" THEN Len(given) = widget_mode.size
    ELSE IF widget_mode.kind = "String" THEN \A i \in 1..Len(given) : given[i] < 128
    ELSE TRUE

\* C18: in every mode parse(stringify(bytes)) = bytes, for bytes of exactly
\* the width of an Integer mode, for ASCII bytes in String mode and for any
\* bytes in Binary mode: stringify succeeds on them and parse of its text
\* gives the bytes back.
C18_RoundTrip ==
    RoundTripDomain =>
        /\ last = "set_value" => returned.err = "none"
        /\ last = "set_value;value" => returned = Done(given)

\* a negative 64-bit big-endian integer went through stringify and parse
C18_Witness ==
    /\ last = "set_value;value"
    /\ widget_mode = [kind |-> "Integer", size |-> I64, sign |-> "Signed",
                      endian |-> "Big"]
    /\ Len(given) = 8 /\ given[1] = 128 /\ given[8] = 255
    /\ widget_buf[1] = CH_MINUS
    /\ returned = Done(given)

IsHexDigit(ch) ==
    \/ ch >= CH_0 /\ ch <= CH_9
    \/ ch >= CH_UPPER_A /\ ch <= CH_UPPER_F
    \/ ch >= CH_LOWER_A /\ ch <= CH_LOWER_F

\* two-hex-digit pairs separated by single spaces, from str[i] on, with or
\* without one space after the last pair
RECURSIVE HexPairs(_, _)
HexPairs(str, i) ==
    \/ i > Len(str)
    \/ /\ i + 1 <= Len(str)
       /\ IsHexDigit(str[i]) /\ IsHexDigit(str[i + 1])
       /\ \/ i + 2 > Len(str)
          \/ str[i + 2] = CH_SPACE /\ HexPairs(str, i + 3)

\* C19: parse in Binary mode succeeds only on two-hex-digit pairs separated
\* by single spaces (with or without one trailing space); any other text is
\* a parse error and yields no bytes.
C19_BinaryOnlyPairs ==
    (last = "value" /\ widget_mode.kind = "Binary" /\ ~HexPairs(widget_buf, 1))
        => (returned.err # "none" /\ returned.val = <<>>)

\* C20: stringify in an Integer mode returns "not enough bytes" for every
\* input shorter than the width of the mode, the empty input included, and
\* succeeds for every input of at least that many bytes.
C20_NotEnoughBytes ==
    (last = "set_value" /\ widget_mode.kind = "Integer")
        => IF Len(given) < widget_mode.size THEN returned.err = "not enough bytes"
           ELSE returned.err = "none"

\* the term is a literal of the Integer mode the widget is in
ValidLiteral == widget_mode.kind = "Integer" /\ widget_buf # <<>> /\ returned.err = "none"

\* the value of the literal modulo 2^(8 * to_size) as to_size big-endian
\* bytes: the bytes of the literal in its own width, sign-extended or
\* zero-extended, and cut to the low to_size bytes
LiteralModulo(to_size) ==
    LET own == from_bytes(widget_mode.endian, returned.val)
        fill == IF widget_mode.sign = "Signed" /\ own[1] >= 128 THEN 255 ELSE 0
        wide == [i \in 1..(I64 - Len(own)) |-> fill] \o own
    IN  SubSeq(wide, I64 - to_size + 1, I64)

\* C21: set_search_mode from an Integer mode to another Integer mode, with a
\* valid literal v in the term, rewrites the term to v modulo 2^s2 of the
\* target size s2, printed as unsigned for an Unsigned target and as two's
\* complement for a Signed target.
C21_IntegerCast ==
    [][ (/\ last = "value" /\ last' = "set_search_mode"
         /\ ValidLiteral
         /\ widget_mode'.kind = "Integer" /\ widget_mode' # widget_mode)
        => widget_buf' = IF widget_mode'.sign = "Unsigned"
                         THEN FormatUnsigned(LiteralModulo(widget_mode'.size))
                         ELSE FormatSigned(LiteralModulo(widget_mode'.size)) ]_vars

\* signed 64-bit -1 has become 255 as unsigned 8-bit
C21_Witness ==
    /\ last = "set_search_mode"
    /\ prev_mode = Integer(I64, "Signed", "Little")
    /\ returned = Done(<<255, 255, 255, 255, 255, 255, 255, 255>>)
    /\ widget_mode = Integer(I8, "Unsigned", "Little")
    /\ widget_buf = <<50, 53, 53>>

\* one of the modes a and b is Binary, the other an Integer mode of as many
\* bytes as the term decoded to in the first mode
BinaryIntegerPair(a, b) ==
    /\ returned.err = "none"
    /\ \/ a.kind = "Binary" /\ b.kind = "Integer" /\ Len(returned.val) = b.size
       \/ a.kind = "Integer" /\ b.kind = "Binary" /\ Len(returned.val) = a.size

\* C22: for A Binary and B an Integer mode of width w, or the other way
\* round, a term that decodes to exactly w / 8 bytes in mode A decodes to
\* the same bytes after set_search_mode(B) followed by set_search_mode(A).
C22_ModeRoundTrip ==
    [][ (/\ last = "set_search_mode" /\ last' = "set_search_mode;set_search_mode"
         /\ BinaryIntegerPair(prev_mode, widget_mode))
        => (widget_mode' = prev_mode /\ parse(widget_mode', widget_buf') = returned) ]_vars

\* the eight bytes 80 00 00 00 00 00 00 FF went from Binary to a signed
\* 64-bit big-endian integer and back
C22_Witness ==
    /\ last = "set_search_mode;set_search_mode"
    /\ widget_mode = BinaryMode
    /\ prev_mode = Integer(I64, "Signed", "Big")
    /\ returned = Done(<<128, 0, 0, 0, 0, 0, 0, 255>>)
    /\ parse(widget_mode, widget_buf) = returned

\* the keys of the mode-switch actions: cycle the major mode (F5, Shift+F5),
\* the integer size, the sign, the endianness
ModeSwitchKeys == {"KeyF5", "END_OF_MEDIUM", "KeyF6", "KeyF7", "KeyF8"}

\* C23: the search mode changes only by a mode-switch key pressed in the
\* search bar; every other input event (opening the bar, closing it,
\* editing the term, submitting it) leaves the mode as it is.
C23_ModeOnlyBySwitch ==
    [][ widget_mode' # widget_mode
        => (focused["search_widget"] /\ last' \in ModeSwitchKeys) ]_vars

\* C24: in the focused search bar in an Integer mode F6 changes the integer
\* size and leaves sign and endianness, F7 toggles the sign and leaves size
\* and endianness, F8 toggles the endianness and leaves size and sign.
C24_IntegerKeys ==
    [][ (focused["search_widget"] /\ widget_mode.kind = "Integer")
        => /\ last' = "KeyF6" =>
                  /\ widget_mode'.size \in IntSizes \ {widget_mode.size}
                  /\ widget_mode' = [widget_mode EXCEPT !.size = widget_mode'.size]
           /\ last' = "KeyF7" =>
                  widget_mode' = [widget_mode EXCEPT !.sign = NextSign(@)]
           /\ last' = "KeyF8" =>
                  widget_mode' = [widget_mode EXCEPT
                                     !.endian = IF @ = "Little" THEN "Big" ELSE "Little"]
      ]_vars

\* C30: in Binary mode, after any sequence of editing keys from an empty
\* term or from a term stringify has made, the edit cursor is never on a
\* separator (cursor mod 3 is never 2) and no handler panics.
C30_CursorOffSeparator ==
    widget_cursor % 3 # 2 /\ status # "panicked"

\* C29: the '#' key on a non-empty file, with the byte under the cursor
\* printable ASCII, selects the maximal run of printable-ASCII bytes that
\* contains the cursor; with the byte under the cursor not printable it
\* reports 'No ASCII character under cursor', makes no selection and leaves
\* selecting false.
C29_SelectAsciiLine ==
    [][ (status = "running" /\ status' = "running" /\ last' = "select_line"
         /\ size > 0)
        => IF is_printable_ascii(mem[cursor + 1])
           THEN /\ selection_start' <= cursor
                /\ cursor < selection_end'
                /\ selection_end' <= size
                /\ \A i \in selection_start'..(selection_end' - 1) :
                      is_printable_ascii(mem[i + 1])
                /\ selection_start' = 0 \/ ~is_printable_ascii(mem[selection_start'])
                /\ selection_end' = size
                   \/ ~is_printable_ascii(mem[selection_end' + 1])
           ELSE /\ error' = "No ASCII character under cursor"
                /\ selection_start' = selection_start
                /\ selection_end' = selection_end
                /\ ~selecting' ]_vars

\* C28: adjust_view leaves view_offset as it is whenever the cursor it is
\* called with lies in the viewport (view_offset <= cursor < view_offset +
\* view_size) and view_offset <= max_view_offset. The calls are those of
\* set_cursor in the moves of the navigation keys, which assign the cursor
\* and call adjust_view.
C28_AdjustViewFrame ==
    [][ (status = "running" /\ last' = "move" /\ bytes_per_row > 0
         /\ view_offset <= cursor' /\ cursor' < view_offset + view_size
         /\ view_offset <= MaxViewOffset(Self))
        => view_offset' = view_offset ]_vars

\* C28 witness: a move has put the cursor in a row of the viewport that is
\* neither its first nor its last row, in a viewport scrolled down and below
\* max_view_offset: adjust_view was called with the cursor in view and did
\* not scroll (a scroll leaves the cursor in the first or the last row).
C28_Witness ==
    /\ status = "running" /\ last = "move" /\ bytes_per_row > 0
    /\ view_offset > 0
    /\ view_offset < MaxViewOffset(Self)
    /\ view_offset + bytes_per_row <= cursor
    /\ cursor < view_offset + view_size - bytes_per_row

\* C27: with an empty search pattern find_next and find_previous (the keys
\* n, P, p, N) change nothing: cursor, selection, view_offset, the error
\* message and the redraw flag are as before, and nothing panics.
C27_EmptyPatternNoOp ==
    [][ (status = "running" /\ last' \in {"find_next", "find_previous"}
         /\ search_data = <<>> /\ search_data' = <<>>)
        => /\ status' = "running"
           /\ cursor' = cursor
           /\ selection_start' = selection_start
           /\ selection_end' = selection_end
           /\ selecting' = selecting
           /\ view_offset' = view_offset
           /\ error' = error
           /\ need_redraw' = need_redraw ]_vars

\* C27 witness: find_previous has returned with no pattern set, the cursor
\* past offset 0 (where a pattern would be looked for) and nothing to redraw.
C27_Witness ==
    /\ status = "running" /\ last = "find_previous"
    /\ search_data = <<>>
    /\ cursor > 0
    /\ error = "none"
    /\ ~need_redraw

NotFoundErrors == {"Pattern not found searching forward",
                   "Pattern not found searching backward"}

\* C26: after a find has reported 'Pattern not found', the next input event,
\* whatever key it is, clears the error: in the state that follows it error
\* is None.
C26_NotFoundClearedByNextKey ==
    [][ (Reading /\ error \in NotFoundErrors /\ last' # last)
        => error' = "none" ]_vars

\* C25: in what a redraw draws, a cell that is not the cursor and carries
\* Selected has the selection style, and one that carries AutoHighlight and
\* SearchMatch but not Selected has the auto-highlight style, in the hex
\* column and in the ASCII column.
C25_RenderPrecedence ==
    [][ (status = "running" /\ status' = "running" /\ last' = "redraw")
        => \A o \in DrawnOffsets(Self') :
              LET m == view_mask'[o - view_offset' + 1]
              IN  o # cursor'
                  => /\ HasBit(m, MASK_SELECTED)
                        => /\ HexCellAttrs(Self', o) = PAIR_SELECTION
                           /\ AsciiCellAttrs(Self', o) = PAIR_SELECTION
                     /\ (HasBit(m, MASK_HIGHLIGHT) /\ HasBit(m, MASK_SEARCH)
                         /\ ~HasBit(m, MASK_SELECTED))
                        => /\ HexCellAttrs(Self', o) = PAIR_SELECTION_MATCH
                           /\ AsciiCellAttrs(Self', o) = PAIR_SELECTION_MATCH ]_vars

\* the operations that move the cursor: arrows, Home/End and percent keys,
\* page keys, offset jumps, finds
MoveOps == {"move", "page_up", "page_down", "goto", "find_next", "find_previous"}

\* the position a selecting session started at, read from the state: the end
\* of the selection [min(a, cursor), max(a, cursor) + 1) opposite to the cursor
SessionAnchor ==
    IF cursor = selection_start THEN selection_end - 1 ELSE selection_start

\* C31: 's' with selecting = false starts a session with the selection
\* [a, a + 1) at the cursor a, and every step of a cursor movement taken
\* while selecting stays true leaves the selection [min(a, cursor),
\* max(a, cursor) + 1) around the same a, the cursor at one of its ends.
C31_SessionSelection ==
    [][ (status = "running" /\ status' = "running")
        => /\ (~selecting /\ selecting' /\ last' = "other")
              => /\ cursor' = cursor
                 /\ selection_start' = cursor
                 /\ selection_end' = cursor + 1
           /\ (selecting /\ selecting' /\ last' \in MoveOps)
              => LET a == SessionAnchor
                 IN  /\ selection_start' = Min(a, cursor')
                     /\ selection_end' = Max(a, cursor') + 1 ]_vars

\* C31 witness: a session in which a movement has taken the cursor to the
\* left of its start, the start not at the end of the file.
C31_Witness ==
    /\ status = "running" /\ selecting /\ last \in MoveOps
    /\ cursor = selection_start
    /\ selection_end - selection_start >= 2
    /\ selection_end < size

\* C32: in every state, for every file size, 0 included, the selection lies
\* inside the file: 0 <= selection_start <= selection_end <= size.
C32_SelectionInFile ==
    /\ 0 <= selection_start
    /\ selection_start <= selection_end
    /\ selection_end <= size

\* C33: with selecting = false a step of a cursor movement (arrows,
\* Home/End, percent keys, page keys, offset jumps, finds) leaves
\* selection_start and selection_end as they were.
C33_FrozenSelection ==
    [][ (status = "running" /\ status' = "running" /\ ~selecting
         /\ last' \in MoveOps)
        => /\ selection_start' = selection_start
           /\ selection_end' = selection_end ]_vars

\* C33 witness: a movement has taken the cursor out of a selection that is
\* no longer being extended.
C33_Witness ==
    /\ status = "running" /\ ~selecting /\ last \in MoveOps
    /\ selection_start < selection_end
    /\ (cursor < selection_start \/ cursor >= selection_end)

\* C34: in Binary mode, after any sequence of editing keys from an empty
\* term or from a term stringify has made, the term is digit pairs separated
\* by single spaces, which parse accepts, and Enter on a non-empty term
\* answers with the parsed bytes.
C34_BinaryWellFormed ==
    status = "running"
    => /\ HexPairs(widget_buf, 1)
       /\ parse(widget_mode, widget_buf).err = "none"
       /\ widget_buf # <<>> => widget_handle(WSelf, "ENTER").result = "Value"

\* C35: in every state at most one of the four input widgets (offset input,
\* relative-offset input, filename input, search bar) has focus.
C35_SingleFocus ==
    Cardinality({ w \in Widgets : focused[w] }) <= 1

\* C35 witness: the relative-offset input has focus after a search was
\* submitted in the search bar, which keeps its focus on a submit: the key
\* that opened the one has closed the other.
C35_Witness ==
    /\ status = "running"
    /\ search_data # <<>>
    /\ focused["rel_offset_input"]
    /\ ~focused["search_widget"]

\* C36: set_search_mode from an Integer mode to the mode of the other sign
\* (same size, same endianness), with a valid literal of the current mode in
\* the term, leaves a term that decodes to the same bytes; the call back to
\* the first mode leaves a term that decodes to them again.
C36_SignToggleKeepsBytes ==
    [][ /\ (/\ last = "value" /\ last' = "set_search_mode"
            /\ ValidLiteral
            /\ widget_mode' = next_sign(widget_mode))
           => parse(widget_mode', widget_buf') = Done(returned.val)
        /\ (/\ last = "set_search_mode"
            /\ last' = "set_search_mode;set_search_mode"
            /\ prev_mode.kind = "Integer"
            /\ returned.err = "none" /\ Len(returned.val) = prev_mode.size
            /\ widget_mode = next_sign(prev_mode))
           => /\ widget_mode' = prev_mode
              /\ parse(widget_mode', widget_buf') = Done(returned.val) ]_vars

\* C36 witness: signed 8-bit -1 (bytes FF) has become unsigned 8-bit 255
C36_Witness ==
    /\ last = "set_search_mode"
    /\ prev_mode = Integer(I8, "Signed", "Little")
    /\ returned = Done(<<255>>)
    /\ widget_mode = Integer(I8, "Unsigned", "Little")
    /\ widget_buf = <<50, 53, 53>>

\* the least k with 100 * k >= p * m: ceil(p * m / 100)
CeilPercent(p, m) ==
    CHOOSE k \in 0..m : 100 * k >= p * m /\ (k = 0 \/ 100 * (k - 1) < p * m)

\* C37: on a file of size N > 1 (N - 1 <= MAX / 100) a goto_percent(p) with
\* p in 1..99 (the values of Percents) that returns leaves the cursor at ceil(p * (N - 1) / 100), which
\* is at most N - 1 and at least the cursor of every smaller percent.
C37_PercentCeil ==
    [][ (status = "running" /\ status' = "running" /\ size > 1
         /\ size - 1 <= UsizeMax \div 100)
        => \A p \in Percents \cap 1..99 :
              last' = "goto_percent_" \o ToString(p)
              => /\ cursor' = CeilPercent(p, size - 1)
                 /\ cursor' <= size - 1
                 /\ \A q \in Percents \cap 1..(p - 1) :
                       \A r \in goto_percent(Self, q) :
                          r.status = "running" => r.cursor <= cursor' ]_vars

\* C37 witness: goto_percent(13) has moved the cursor (need_redraw is set by
\* the move) to offset 2 = ceil(13 * 8 / 100) of a file of 9 bytes.
C37_Witness ==
    /\ status = "running" /\ last = "goto_percent_13" /\ need_redraw
    /\ size = 9
    /\ cursor = 2

\* C38: in the help TextBox, after any sequence of scroll keys and resize
\* events (a resize that changes only the column count and so wraps the text
\* into another number of lines included), view_offset <= max_view_offset =
\* max(0, lines - page_height), so redraw never computes lines.len() -
\* view_offset with view_offset > lines.len().
C38_HelpViewOffsetBounded ==
    /\ help_box.view_offset <= text_box_max_view_offset(help_box)
    /\ ~(help_shown /\ text_box_redraw_panics(help_box))

====
